---- MODULE Spec2Model ----
(***************************************************************************)
(* RIAS (rehman_accounting.py): the SQLite schema with its triggers, the   *)
(* account / voucher handlers of the Tk application and the draft voucher  *)
(* editor, as a state machine.                                             *)
(*                                                                         *)
(* Text is a sequence of one-character strings.  Amounts are integers in   *)
(* thousandths of a currency unit (mils), so that rounding to two decimal  *)
(* places (Round2) is a real operation: 10 mils = 0.01.                    *)
(***************************************************************************)
EXTENDS Integers, Sequences, FiniteSets, TLC

\* ------------------------------------------------------------------ bounds
MaxAccountId == 1      \* account ids handed out in Spec
MaxVoucherId == 2      \* voucher ids handed out
MaxTxId      == 4      \* transaction line ids handed out
MaxLines     == 2      \* lines in the draft
MaxChartId   == 2      \* account ids handed out in SpecAccounts
MaxStmtTxId  == 2      \* transaction line ids handed out in SpecStmt
MaxEditTxId  == 6      \* transaction line ids handed out in SpecEdit
MaxJobId     == 5      \* timer ids handed out by root.after in SpecAnimate

\* ------------------------------------------------------------------ text
None == <<>>

Upper == <<"A", "B", "C", "H", "K", "N", "S", "É">>

Lower == <<"a", "b", "c", "h", "k", "n", "s", "é">>

RECURSIVE IndexIn(_, _, _)
IndexIn(ch, s, i) ==
  IF i > Len(s) THEN 0 ELSE IF s[i] = ch THEN i ELSE IndexIn(ch, s, i + 1)

IsAscii(ch) == ch /= "É" /\ ch /= "é"

\* SQLite's built-in LOWER(): folds the ASCII letters only.
SqlLowerChar(ch) ==
  LET i == IndexIn(ch, Upper, 1)
  IN  IF i > 0 /\ IsAscii(ch) THEN Lower[i] ELSE ch

SqlLower(s) == [i \in 1..Len(s) |-> SqlLowerChar(s[i])]

\* Case folding of the whole alphabet: what "equal ignoring case" means.
FoldChar(ch) ==
  LET i == IndexIn(ch, Upper, 1)
  IN  IF i > 0 THEN Lower[i] ELSE ch

FoldCase(s) == [i \in 1..Len(s) |-> FoldChar(s[i])]

RECURSIVE LStrip(_)
LStrip(s) == IF s /= <<>> /\ Head(s) = " " THEN LStrip(Tail(s)) ELSE s

RECURSIVE RStrip(_)
RStrip(s) ==
  IF s /= <<>> /\ s[Len(s)] = " " THEN RStrip(SubSeq(s, 1, Len(s) - 1)) ELSE s

\* str.strip()
Strip(s) == RStrip(LStrip(s))

\* ------------------------------------------------------------------ amounts
\* round(x, 2) / ROUND(x, 2) on a value given in mils.  The direction of an
\* exact tie (x ending in 5 mils) depends on the binary representation of the
\* float; the amounts drawn below never produce a tie.
Round2(m) ==
  IF m >= 0 THEN ((m + 5) \div 10) * 10 ELSE 0 - (((0 - m) + 5) \div 10) * 10

\* What the user typed into an amount field: nothing, text that float()
\* rejects, or a decimal number (given in mils).
Blank == [kind |-> "blank", mils |-> 0]

Junk == [kind |-> "junk", mils |-> 0]

Num(m) == [kind |-> "num", mils |-> m]

\* parse_amount: round(float(value.strip() or 0), 2), None on ValueError.
\* The result is <<amount>>, or <<>> for None.
NoAmount == <<>>

parse_amount(value) ==
  IF value.kind = "blank" THEN <<0>>
  ELSE IF value.kind = "junk" THEN NoAmount
  ELSE <<Round2(value.mils)>>

RECURSIVE SqlSum(_, _)
\* COALESCE(SUM(col), 0) over a set of rows
SqlSum(rows, col) ==
  IF rows = {} THEN 0
  ELSE LET r == CHOOSE x \in rows : TRUE IN r[col] + SqlSum(rows \ {r}, col)

\* ------------------------------------------------------------------ dates
Digits == <<"0", "1", "2", "3", "4", "5", "6", "7", "8", "9">>

DigitValOf == [ch \in {Digits[i] : i \in DOMAIN Digits} |-> IndexIn(ch, Digits, 1) - 1]

IsDigit(ch) == ch \in DOMAIN DigitValOf

DigitVal(ch) == DigitValOf[ch]

RECURSIVE NumVal(_)
NumVal(s) == IF s = <<>> THEN 0 ELSE NumVal(SubSeq(s, 1, Len(s) - 1)) * 10 + DigitVal(s[Len(s)])

AllDigits(s) == s /= <<>> /\ \A i \in 1..Len(s) : IsDigit(s[i])

DaysIn(y, m) ==
  IF m \in {4, 6, 9, 11} THEN 30
  ELSE IF m = 2 THEN (IF y % 4 = 0 /\ (y % 100 /= 0 \/ y % 400 = 0) THEN 29 ELSE 28)
  ELSE 31

\* is_valid_date: datetime.strptime(value, "%Y-%m-%d") succeeds.  %Y is four
\* digits; %m and %d are one or two digits, so "2024-1-5" parses as well.
is_valid_date(value) ==
  LET i  == IndexIn("-", value, 1)
      j  == IF i = 0 THEN 0 ELSE IndexIn("-", value, i + 1)
      ys == SubSeq(value, 1, i - 1)
      ms == SubSeq(value, i + 1, j - 1)
      ds == SubSeq(value, j + 1, Len(value))
      y  == NumVal(ys)
      m  == NumVal(ms)
      d  == NumVal(ds)
  IN  /\ i > 0
      /\ j > 0
      /\ Len(ys) = 4 /\ AllDigits(ys)
      /\ Len(ms) \in {1, 2} /\ AllDigits(ms)
      /\ Len(ds) \in {1, 2} /\ AllDigits(ds)
      /\ y >= 1
      /\ m \in 1..12
      /\ d \in 1..DaysIn(y, m)

\* The characters of dates and account names in code point order, which is
\* also the order of their UTF-8 encodings
CodePoints ==
  <<" ", ",", "-", "/", "0", "1", "2", "3", "4", "5", "6", "7", "8", "9",
    "A", "B", "C", "H", "K", "N", "S", "a", "b", "c", "h", "k", "n", "s", "É", "é">>

CodePointOf == [ch \in {CodePoints[i] : i \in DOMAIN CodePoints} |-> IndexIn(ch, CodePoints, 1)]

CharRank(ch) == IF ch \in DOMAIN CodePointOf THEN CodePointOf[ch] ELSE 0

RECURSIVE TextLeqFrom(_, _, _)
\* s <= t from position i on, the characters before it being equal
TextLeqFrom(s, t, i) ==
  IF i > Len(s) THEN TRUE
  ELSE IF i > Len(t) THEN FALSE
  ELSE IF s[i] /= t[i] THEN CharRank(s[i]) < CharRank(t[i])
  ELSE TextLeqFrom(s, t, i + 1)

\* s <= t as SQLite and Python compare text: code point by code point
TextLeq(s, t) == TextLeqFrom(s, t, 1)

\* ------------------------------------------------------------------ schema
\* The database: the rows of the three tables and sqlite_sequence (the last
\* id AUTOINCREMENT handed out per table; ids are never reused).
\*   accounts     : [id, name, type]
\*   vouchers     : [id, date, description, posted]
\*   transactions : [id, voucher_id, account_id, debit, credit]
AccountTypes == {"Asset", "Liability", "Income", "Expense"}

EmptyDb ==
  [accounts |-> {}, vouchers |-> {}, transactions |-> {},
   seq |-> [accounts |-> 0, vouchers |-> 0, transactions |-> 0]]

\* The outcome of one SQL statement: "ok" and the new database, or the
\* constraint / trigger that aborted it and the database as it was.
Ok(D) == [err |-> "ok", db |-> D]

Fail(e, D) == [err |-> e, db |-> D]

LinesOf(D, vid) == {t \in D.transactions : t.voucher_id = vid}

\* COALESCE((SELECT posted FROM vouchers WHERE id = vid), 0) = 1
IsPosted(D, vid) == \E v \in D.vouchers : v.id = vid /\ v.posted = 1

\* CHECK (debit >= 0), CHECK (credit >= 0) and the one-sided CHECK
TxCheck(debit, credit) ==
  /\ debit >= 0
  /\ credit >= 0
  /\ (debit > 0 /\ credit = 0) \/ (credit > 0 /\ debit = 0)

\* The foreign keys of a line with foreign_keys left OFF
TxForeignKeys_off(D, vid, aid) == TRUE

\* FOREIGN KEY (voucher_id) and FOREIGN KEY (account_id), foreign_keys = ON
TxForeignKeys(D, vid, aid) ==
  /\ \E v \in D.vouchers : v.id = vid
  /\ \E a \in D.accounts : a.id = aid

trg_tx_no_insert_posted(D, new_vid) == IsPosted(D, new_vid)

trg_tx_no_update_posted(D, old_vid, new_vid) == IsPosted(D, old_vid) \/ IsPosted(D, new_vid)

\* trg_tx_no_delete_posted dropped from the schema
trg_tx_no_delete_posted_dropped(D, old_vid) == FALSE

trg_tx_no_delete_posted(D, old_vid) == IsPosted(D, old_vid)

\* trg_voucher_post_balanced dropped from the schema
trg_voucher_post_balanced_dropped(D, new_id) == "ok"

\* BEFORE UPDATE OF posted ON vouchers WHEN NEW.posted = 1
trg_voucher_post_balanced(D, new_id) ==
  IF Cardinality(LinesOf(D, new_id)) < 2 THEN "sql:TooFewLines"
  ELSE IF Round2(SqlSum(LinesOf(D, new_id), "debit"))
            /= Round2(SqlSum(LinesOf(D, new_id), "credit")) THEN "sql:Unbalanced"
  ELSE "ok"

\* INSERT INTO accounts (name, type) VALUES (?, ?)
SqlInsertAccount(D, name, type) ==
  IF type \notin AccountTypes THEN Fail("sql:Check", D)
  ELSE IF \E a \in D.accounts : a.name = name THEN Fail("sql:Unique", D)
  ELSE Ok([D EXCEPT
             !.accounts = @ \cup {[id |-> D.seq.accounts + 1, name |-> name, type |-> type]},
             !.seq.accounts = @ + 1])

\* UPDATE accounts SET name=?, type=? WHERE name=?
SqlUpdateAccount(D, name, type, where_name) ==
  LET hit == {a \in D.accounts : a.name = where_name}
  IN  IF hit = {} THEN Ok(D)
      ELSE IF type \notin AccountTypes THEN Fail("sql:Check", D)
      ELSE IF \E a \in D.accounts \ hit : a.name = name THEN Fail("sql:Unique", D)
      ELSE Ok([D EXCEPT !.accounts =
                 (@ \ hit) \cup {[id |-> a.id, name |-> name, type |-> type] : a \in hit}])

\* DELETE FROM accounts WHERE name=? with foreign keys not enforced
SqlDeleteAccount_unrestricted(D, where_name) ==
  Ok([D EXCEPT !.accounts = {a \in @ : a.name /= where_name}])

\* DELETE FROM accounts WHERE name=?   (transactions.account_id restricts)
SqlDeleteAccount(D, where_name) ==
  LET hit == {a \in D.accounts : a.name = where_name}
  IN  IF \E a \in hit : \E t \in D.transactions : t.account_id = a.id
      THEN Fail("sql:ForeignKey", D)
      ELSE Ok([D EXCEPT !.accounts = @ \ hit])

\* The insert with vouchers.id declared without AUTOINCREMENT: the new id is
\* one more than the largest id in the table
SqlInsertVoucher_rowid(D, date, description) ==
  LET ids == {v.id : v \in D.vouchers}
      new == IF ids = {} THEN 1 ELSE (CHOOSE i \in ids : \A k \in ids : k <= i) + 1
  IN  Ok([D EXCEPT
            !.vouchers = @ \cup {[id |-> new, date |-> date,
                                  description |-> description, posted |-> 0]},
            !.seq.vouchers = new])

\* INSERT INTO vouchers (date, description, posted) VALUES (?, ?, 0)
SqlInsertVoucher(D, date, description) ==
  Ok([D EXCEPT
        !.vouchers = @ \cup {[id |-> D.seq.vouchers + 1, date |-> date,
                              description |-> description, posted |-> 0]},
        !.seq.vouchers = @ + 1])

\* UPDATE vouchers SET date=?, description=?, posted=0 without its WHERE
SqlUpdateVoucherHeader_all_rows(D, date, description, vid) ==
  Ok([D EXCEPT !.vouchers =
        {[id |-> v.id, date |-> date, description |-> description, posted |-> 0] : v \in @}])

\* UPDATE vouchers SET date=?, description=?, posted=0 WHERE id=?
SqlUpdateVoucherHeader(D, date, description, vid) ==
  Ok([D EXCEPT !.vouchers =
        {IF v.id = vid
         THEN [id |-> v.id, date |-> date, description |-> description, posted |-> 0]
         ELSE v : v \in @}])

\* UPDATE vouchers SET posted=? WHERE id=?
SqlSetPosted(D, vid, posted) ==
  IF ~ \E v \in D.vouchers : v.id = vid THEN Ok(D)
  ELSE IF posted = 1 /\ trg_voucher_post_balanced(D, vid) /= "ok"
  THEN Fail(trg_voucher_post_balanced(D, vid), D)
  ELSE Ok([D EXCEPT !.vouchers =
             {IF v.id = vid THEN [v EXCEPT !.posted = posted] ELSE v : v \in @}])

\* DELETE FROM vouchers WHERE id=? that leaves the lines behind
SqlDeleteVoucher_no_cascade(D, vid) ==
  Ok([D EXCEPT !.vouchers = {v \in @ : v.id /= vid}])

\* DELETE FROM vouchers WHERE id=?   (ON DELETE CASCADE removes its lines)
SqlDeleteVoucher(D, vid) ==
  Ok([D EXCEPT !.vouchers = {v \in @ : v.id /= vid},
               !.transactions = {t \in @ : t.voucher_id /= vid}])

\* INSERT INTO transactions (voucher_id, account_id, debit, credit) VALUES (?, ?, ?, ?)
SqlInsertTransaction(D, vid, aid, debit, credit) ==
  IF trg_tx_no_insert_posted(D, vid) THEN Fail("sql:PostedVoucherLocked", D)
  ELSE IF ~ TxCheck(debit, credit) THEN Fail("sql:Check", D)
  ELSE IF ~ TxForeignKeys(D, vid, aid) THEN Fail("sql:ForeignKey", D)
  ELSE Ok([D EXCEPT
             !.transactions = @ \cup {[id |-> D.seq.transactions + 1, voucher_id |-> vid,
                                       account_id |-> aid, debit |-> debit, credit |-> credit]},
             !.seq.transactions = @ + 1])

\* UPDATE transactions SET voucher_id=?, account_id=?, debit=?, credit=? WHERE id=?
SqlUpdateTransaction(D, tid, vid, aid, debit, credit) ==
  LET hit == {t \in D.transactions : t.id = tid}
  IN  IF hit = {} THEN Ok(D)
      ELSE IF \E t \in hit : trg_tx_no_update_posted(D, t.voucher_id, vid)
      THEN Fail("sql:PostedVoucherLocked", D)
      ELSE IF ~ TxCheck(debit, credit) THEN Fail("sql:Check", D)
      ELSE IF ~ TxForeignKeys(D, vid, aid) THEN Fail("sql:ForeignKey", D)
      ELSE Ok([D EXCEPT !.transactions =
                 (@ \ hit) \cup {[id |-> tid, voucher_id |-> vid, account_id |-> aid,
                                  debit |-> debit, credit |-> credit]}])

\* DELETE FROM transactions WHERE <rows>
SqlDeleteTransactions(D, rows) ==
  IF \E t \in rows : trg_tx_no_delete_posted(D, t.voucher_id)
  THEN Fail("sql:PostedVoucherLocked", D)
  ELSE Ok([D EXCEPT !.transactions = @ \ rows])

\* The start-up statement of _init_schema: UPDATE vouchers SET posted = CASE
\* WHEN the voucher has a line and its rounded totals agree THEN 1 ELSE 0 END.
\* From the second start on trg_voucher_post_balanced exists and fires for
\* every row whose new value is 1.
InitSchemaPosted(D, vid) ==
  IF /\ LinesOf(D, vid) /= {}
     /\ Round2(SqlSum(LinesOf(D, vid), "debit")) = Round2(SqlSum(LinesOf(D, vid), "credit"))
  THEN 1 ELSE 0

SqlInitSchema(D) ==
  IF \E v \in D.vouchers :
       InitSchemaPosted(D, v.id) = 1 /\ trg_voucher_post_balanced(D, v.id) /= "ok"
  THEN Fail("sql:TooFewLines", D)
  ELSE Ok([D EXCEPT !.vouchers =
             {[v EXCEPT !.posted = InitSchemaPosted(D, v.id)] : v \in @}])

\* ------------------------------------------------------------------ inputs
\* What the user can type or pick.
\* The account form: the name field and the type box.  Names are one letter
\* long: an ASCII and a non-ASCII letter in both cases, one padded with a blank.
AccountFormInputs ==
  { <<<<"c">>, "Asset">>, <<<<"C">>, "Income">>, <<<<" ", "c">>, "Expense">>,
    <<<<"é">>, "Liability">>, <<<<"É">>, "Asset">>, <<<<>>, "Asset">>, <<<<"c">>, "">> }

\* The account form in Spec: one name, typed with and without a leading blank
VoucherFormAccounts ==
  { <<<<"c">>, "Asset">>, <<<<" ", "c">>, "Income">>, <<<<>>, "Asset">>, <<<<"c">>, "">> }

\* The names an account list or the account box of the voucher form can hold
NamesOf(forms) == {Strip(f[1]) : f \in forms}

\* datetime.now().strftime("%Y-%m-%d") on the day of the run
Today == <<"2", "0", "2", "4", "-", "0", "3", "-", "0", "1">>

\* What the user types over the date and description fields of the voucher
\* form: a date that is not one (the form comes up with today's)
HeaderInputs == { <<<<"1", "/", "2">>, <<>>>> }

\* The debit and credit fields of the voucher form: 0.014 rounds to 0.01
\* and 0.004 to 0.00
AmountInputs ==
  { <<Num(14), Blank>>, <<Blank, Num(14)>>, <<Num(14), Num(14)>>, <<Num(4), Blank>>,
    <<Blank, Blank>>, <<Num(0 - 10), Blank>>, <<Junk, Num(14)>> }

\* The default "From" of the voucher history filter
HistFromDefault == <<"2", "0", "0", "0", "-", "0", "1", "-", "0", "1">>

\* The From and To fields of the voucher history filter
HistFilterInputs == { <<HistFromDefault, Today>>, <<<<>>, Today>> }

NoVoucher == 0

\* The chart of accounts behind the reports: one account of each type; two
\* names hold "cash" and "bank" in another case, two hold neither
ReportAccountForms ==
  { <<<<"C", "a", "s", "h">>, "Asset">>, <<<<"b">>, "Liability">>,
    <<<<"a">>, "Income">>, <<<<"B", "A", "N", "K">>, "Expense">> }

\* Dates typed into the voucher form: 1 January and 1 February 2024 with
\* leading zeros, 5 January 2024 without
ReportVoucherDates ==
  { <<"2", "0", "2", "4", "-", "0", "1", "-", "0", "1">>,
    <<"2", "0", "2", "4", "-", "0", "2", "-", "0", "1">>,
    <<"2", "0", "2", "4", "-", "1", "-", "5">> }

Jan01 == <<"2", "0", "2", "4", "-", "0", "1", "-", "0", "1">>

Jan15 == <<"2", "0", "2", "4", "-", "0", "1", "-", "1", "5">>

Feb28 == <<"2", "0", "2", "4", "-", "0", "2", "-", "2", "8">>

\* The From and To fields of the report bar: 15 January to 28 February,
\* 1 January to 28 February, an inverted range, and 1 October to 28 February
\* typed without the zero of the month
ReportDateInputs ==
  { <<Jan15, Feb28>>, <<Jan01, Feb28>>, <<Feb28, Jan15>>,
    <<<<"2", "0", "2", "4", "-", "1", "0", "-", "0", "1">>,
      <<"2", "0", "2", "4", "-", "2", "-", "2", "8">>>> }

\* What the user types over the date and description fields of a voucher
\* loaded for edit: 1 February 2024 and a one-letter description
EditHeaderInputs == { <<<<"2", "0", "2", "4", "-", "0", "2", "-", "0", "1">>, <<"n">>>> }

\* The chart of accounts behind the vouchers that are edited
EditAccountForms == { <<<<"a">>, "Income">>, <<<<"b">>, "Liability">> }

\* The amount fields of a line added to a voucher loaded for edit
EditAmountInputs == { <<Num(14), Blank>>, <<Blank, Num(14)>> }

\* The "Cash Accts" field: empty, one name, and a comma between blanks
CashInputs == { <<>>, <<"b">>, <<" ", ",", " ">> }

\* ------------------------------------------------------------------ state
VARIABLES
  accounts,               \* table accounts
  vouchers,               \* table vouchers
  transactions,           \* table transactions
  seq,                    \* sqlite_sequence
  entries,                \* the draft lines: <<[acc_id, label, debit, credit], ...>>
  current_voucher_id,     \* the voucher being edited, NoVoucher for a new one
  date_entry,             \* text of the date field
  desc_entry,             \* text of the description field
  selected_account_name,  \* the account picked in the chart of accounts, None if none
  vouchers_tree,          \* ids of the rows shown in the voucher history
  report_tree,            \* the rows shown in the report view
  cards,                  \* the figures on the dashboard cards
  backups_written,        \* the files the last handler wrote into db_backups:
                          \* <<[tag, db], ...>>, db the database a file is a copy of
  tree_anim_jobs,         \* the dictionary tree_anim_jobs: tree |-> id of its timer
  after_jobs,             \* the timers of root.after: the last id given out and
                          \* the timers waiting, [id, key, rows, idx] each
  animated_rows,          \* the rows handed to the last animate_tree_rows of the
                          \* report table
  result                  \* what the last handler reported: the error it showed,
                          \* the change it made, "ok" when it only touched the form

dbvars == <<accounts, vouchers, transactions, seq>>

editor == <<entries, current_voucher_id, date_entry, desc_entry>>

reports == <<report_tree, cards>>

anim == <<tree_anim_jobs, after_jobs, animated_rows>>

vars == <<accounts, vouchers, transactions, seq, entries, current_voucher_id,
          date_entry, desc_entry, selected_account_name, vouchers_tree,
          report_tree, cards, backups_written, tree_anim_jobs, after_jobs,
          animated_rows, result>>

\* The committed database
Db == [accounts |-> accounts, vouchers |-> vouchers, transactions |-> transactions, seq |-> seq]

\* conn.commit(): D becomes the committed database
Commit(D) ==
  /\ accounts' = D.accounts
  /\ vouchers' = D.vouchers
  /\ transactions' = D.transactions
  /\ seq' = D.seq

\* backup_database(tag): the database file, which holds the committed
\* database D, is copied into db_backups under a name made of the tag and the
\* time; the file it writes
backup_database(D, tag) == [tag |-> tag, db |-> D]

\* "with db.conn" that commits whatever was done when a statement raised
Atomic_no_rollback(D, r) == r

\* "with db.conn": commit when the block ends normally, roll back to the
\* database as it was when a statement raised
Atomic(D, r) == IF r.err = "ok" THEN r ELSE Fail(r.err, D)

\* ------------------------------------------------------------------ draft editor
RECURSIVE EntrySum(_, _)
\* sum(round(e[col], 2) for e in entries)
EntrySum(es, col) == IF es = <<>> THEN 0 ELSE Round2(Head(es)[col]) + EntrySum(Tail(es), col)

total_debit(es) == Round2(EntrySum(es, "debit"))

\* The credit total taken from the debit column
total_credit_from_debit(es) == Round2(EntrySum(es, "debit"))

total_credit(es) == Round2(EntrySum(es, "credit"))

\* add_line with only the check that both fields are numbers
ValidateLine_numbers_only(d, c) ==
  IF d = NoAmount \/ c = NoAmount THEN "NotANumber" ELSE "ok"

\* The checks of add_line on the parsed amounts, in the order of the code
ValidateLine(d, c) ==
  IF d = NoAmount \/ c = NoAmount THEN "NotANumber"
  ELSE IF d[1] < 0 \/ c[1] < 0 THEN "Negative"
  ELSE IF (d[1] > 0 /\ c[1] > 0) \/ (d[1] = 0 /\ c[1] = 0) THEN "BothOrNone"
  ELSE "ok"

\* SELECT id FROM accounts WHERE name=?
AccountIdByName(D, name) == {a.id : a \in {x \in D.accounts : x.name = name}}

RECURSIVE SortById(_)
\* ORDER BY t.id
SortById(rows) ==
  IF rows = {} THEN <<>>
  ELSE LET r == CHOOSE x \in rows : \A y \in rows : x.id <= y.id
       IN  <<r>> \o SortById(rows \ {r})

\* The rows load_voucher_for_edit reads: the voucher's lines joined with
\* their accounts, in line id order
LoadedEntries(D, vid) ==
  LET rows == SortById(LinesOf(D, vid))
  IN  [i \in 1..Len(rows) |->
         [acc_id |-> rows[i].account_id,
          label  |-> (CHOOSE a \in D.accounts : a.id = rows[i].account_id).name,
          debit  |-> rows[i].debit,
          credit |-> rows[i].credit]]

\* The rows refresh_voucher_history shows for a valid filter: vouchers that
\* have a line and whose date is BETWEEN from and to as text.  The search box
\* is empty and "Show Unbalanced" is off.
HistoryRows(D, from, to) ==
  {v.id : v \in {x \in D.vouchers :
                   /\ LinesOf(D, x.id) /= {}
                   /\ TextLeq(from, x.date)
                   /\ TextLeq(x.date, to)}}

\* refresh_voucher_history: returns at once, leaving the rows as they are,
\* when either filter date is not a date
refresh_voucher_history(D, from, to) ==
  IF ~ is_valid_date(Strip(from)) \/ ~ is_valid_date(Strip(to))
  THEN vouchers_tree' = vouchers_tree
  ELSE vouchers_tree' = HistoryRows(D, from, to)

\* clear_voucher_form that leaves current_voucher_id as it is
clear_voucher_form_keeps_id ==
  /\ current_voucher_id' = current_voucher_id
  /\ entries' = <<>>
  /\ date_entry' = Today
  /\ desc_entry' = <<>>

\* clear_voucher_form: the editor goes back to a new voucher
clear_voucher_form ==
  /\ current_voucher_id' = NoVoucher
  /\ entries' = <<>>
  /\ date_entry' = Today
  /\ desc_entry' = <<>>

RECURSIVE InsertEntries_reversed(_, _, _)
\* The lines inserted last to first
InsertEntries_reversed(D, vid, es) ==
  IF es = <<>> THEN Ok(D)
  ELSE LET r == SqlInsertTransaction(D, vid, es[Len(es)].acc_id,
                                     Round2(es[Len(es)].debit), Round2(es[Len(es)].credit))
       IN  IF r.err /= "ok" THEN r
           ELSE InsertEntries_reversed(r.db, vid, SubSeq(es, 1, Len(es) - 1))

RECURSIVE InsertEntries(_, _, _)
\* for e in entries: INSERT INTO transactions ... (vid, e[0], round(e[2], 2), round(e[3], 2))
InsertEntries(D, vid, es) ==
  IF es = <<>> THEN Ok(D)
  ELSE LET r == SqlInsertTransaction(D, vid, Head(es).acc_id,
                                     Round2(Head(es).debit), Round2(Head(es).credit))
       IN  IF r.err /= "ok" THEN r ELSE InsertEntries(r.db, vid, Tail(es))

\* The statements of save_voucher without the final UPDATE ... SET posted=1
SaveStatements_no_post(D, cur, date, description, es) ==
  LET s1  == IF cur = NoVoucher THEN SqlInsertVoucher(D, date, description)
             ELSE SqlUpdateVoucherHeader(D, date, description, cur)
      vid == IF cur = NoVoucher THEN s1.db.seq.vouchers ELSE cur
      s2  == IF cur = NoVoucher THEN s1 ELSE SqlDeleteTransactions(s1.db, LinesOf(s1.db, vid))
  IN  IF s2.err /= "ok" THEN s2 ELSE InsertEntries(s2.db, vid, es)

\* The statements save_voucher runs inside "with db.conn", stopping at the
\* first one that raises: the outcome and the uncommitted database
SaveStatements(D, cur, date, description, es) ==
  LET s1  == IF cur = NoVoucher THEN SqlInsertVoucher(D, date, description)
             ELSE SqlUpdateVoucherHeader(D, date, description, cur)
      vid == IF cur = NoVoucher THEN s1.db.seq.vouchers ELSE cur
      s2  == IF cur = NoVoucher THEN s1 ELSE SqlDeleteTransactions(s1.db, LinesOf(s1.db, vid))
      s3  == IF s2.err /= "ok" THEN s2 ELSE InsertEntries(s2.db, vid, es)
  IN  IF s3.err /= "ok" THEN s3 ELSE SqlSetPosted(s3.db, vid, 1)

\* The statements delete_selected_voucher runs inside "with db.conn"
DeleteStatements(D, vid) ==
  LET s1 == SqlSetPosted(D, vid, 0)
  IN  IF s1.err /= "ok" THEN s1 ELSE SqlDeleteVoucher(s1.db, vid)

\* ------------------------------------------------------------------ dashboard
\* The lines on any account, whatever its type
LinesOfType_any_type(D, type) ==
  {t \in D.transactions : \E a \in D.accounts : a.id = t.account_id}

\* FROM transactions t JOIN accounts a ON a.id = t.account_id WHERE a.type = ?
LinesOfType(D, type) ==
  {t \in D.transactions : \E a \in D.accounts : a.id = t.account_id /\ a.type = type}

\* animate_number_label: the label ends on fmt(round(target, 2))
animate_number_label(target) == Round2(target)

\* refresh_dashboard with the expenses left out of Net Profit
refresh_dashboard_income_only(D) ==
  LET assets      == SqlSum(LinesOfType(D, "Asset"), "debit")
                       - SqlSum(LinesOfType(D, "Asset"), "credit")
      liabilities == SqlSum(LinesOfType(D, "Liability"), "credit")
                       - SqlSum(LinesOfType(D, "Liability"), "debit")
      income      == SqlSum(LinesOfType(D, "Income"), "credit")
                       - SqlSum(LinesOfType(D, "Income"), "debit")
  IN  [assets      |-> animate_number_label(assets),
       liabilities |-> animate_number_label(liabilities),
       net_profit  |-> animate_number_label(income)]

\* refresh_dashboard on the committed database D: the figures the three cards
\* end on.  Each sum is "fetch_one(...)[0] or 0".
refresh_dashboard(D) ==
  LET assets      == SqlSum(LinesOfType(D, "Asset"), "debit")
                       - SqlSum(LinesOfType(D, "Asset"), "credit")
      liabilities == SqlSum(LinesOfType(D, "Liability"), "credit")
                       - SqlSum(LinesOfType(D, "Liability"), "debit")
      income      == SqlSum(LinesOfType(D, "Income"), "credit")
                       - SqlSum(LinesOfType(D, "Income"), "debit")
      expense     == SqlSum(LinesOfType(D, "Expense"), "debit")
                       - SqlSum(LinesOfType(D, "Expense"), "credit")
  IN  [assets      |-> animate_number_label(assets),
       liabilities |-> animate_number_label(liabilities),
       net_profit  |-> animate_number_label(income - expense)]

\* ------------------------------------------------------------------ chart of accounts
\* add_account, with the name and type fields as typed
AddAccount(name_text, type_text) ==
  LET name == Strip(name_text)
      r    == SqlInsertAccount(Db, name, type_text)
  IN  /\ UNCHANGED <<editor, selected_account_name, vouchers_tree, reports>> /\ backups_written' = <<>> /\ UNCHANGED anim
      /\ IF name = <<>> \/ type_text = ""
         THEN result' = "AllFieldsRequired" /\ UNCHANGED dbvars
         ELSE IF \E a \in accounts : SqlLower(a.name) = SqlLower(name)
         THEN result' = "DuplicateAccount" /\ UNCHANGED dbvars
         ELSE IF r.err /= "ok"
         THEN result' = "DuplicateAccount" /\ UNCHANGED dbvars
         ELSE result' = "AccountAdded" /\ Commit(r.db)

\* on_account_select: a row of the accounts list is picked
OnAccountSelect(name) ==
  /\ \E a \in accounts : a.name = name
  /\ selected_account_name' = name
  /\ result' = "ok"
  /\ UNCHANGED <<dbvars, editor, vouchers_tree, reports>> /\ backups_written' = <<>> /\ UNCHANGED anim

clear_account_form ==
  /\ selected_account_name' = None
  /\ result' = "ok"
  /\ UNCHANGED <<dbvars, editor, vouchers_tree, reports>> /\ backups_written' = <<>> /\ UNCHANGED anim

\* update_account, with the name and type fields as typed
UpdateAccount(name_text, type_text) ==
  LET name == Strip(name_text)
      r    == SqlUpdateAccount(Db, name, type_text, selected_account_name)
  IN  /\ UNCHANGED <<editor, vouchers_tree, reports>> /\ backups_written' = <<>> /\ UNCHANGED anim
      /\ IF selected_account_name = None
         THEN result' = "ok" /\ UNCHANGED <<dbvars, selected_account_name>>
         ELSE IF name = <<>> \/ type_text = ""
         THEN result' = "AllFieldsRequired" /\ UNCHANGED <<dbvars, selected_account_name>>
         ELSE IF \E a \in accounts :
                   SqlLower(a.name) = SqlLower(name) /\ a.name /= selected_account_name
         THEN result' = "DuplicateAccount" /\ UNCHANGED <<dbvars, selected_account_name>>
         ELSE IF r.err /= "ok"
         THEN result' = "DuplicateAccount" /\ UNCHANGED <<dbvars, selected_account_name>>
         ELSE /\ result' = "AccountUpdated"
              /\ Commit(r.db)
              /\ selected_account_name' = name

\* delete_account on the committed database D with the account picked in the
\* list; confirm is the answer to "Delete selected account?".  What it
\* reports and the database it leaves committed.
delete_account(D, selected, confirm) ==
  LET r == SqlDeleteAccount(D, selected)
  IN  IF selected = None THEN [result |-> "ok", db |-> D]
      ELSE IF ~ confirm THEN [result |-> "ok", db |-> D]
      ELSE IF r.err /= "ok" THEN [result |-> "AccountInUse", db |-> D]
      ELSE [result |-> "AccountDeleted", db |-> r.db]

DeleteAccount(confirm) ==
  LET o == delete_account(Db, selected_account_name, confirm)
  IN  /\ result' = o.result
      /\ Commit(o.db)
      /\ selected_account_name' =
           IF o.result = "AccountDeleted" THEN None ELSE selected_account_name
      /\ UNCHANGED <<editor, vouchers_tree, reports>> /\ backups_written' = <<>> /\ UNCHANGED anim

\* ------------------------------------------------------------------ voucher entry
\* The user types into the date and description fields
TypeHeader(date, description) ==
  /\ date_entry' = date
  /\ desc_entry' = description
  /\ result' = "ok"
  /\ UNCHANGED <<dbvars, entries, current_voucher_id, selected_account_name, vouchers_tree, reports>> /\ backups_written' = <<>> /\ UNCHANGED anim

\* "New Voucher"
ClearVoucherForm ==
  /\ clear_voucher_form
  /\ result' = "ok"
  /\ UNCHANGED <<dbvars, selected_account_name, vouchers_tree, reports>> /\ backups_written' = <<>> /\ UNCHANGED anim

\* remove_selected_line; idx is the selected row, 0 when none is selected
RemoveSelectedLine(idx) ==
  /\ UNCHANGED <<dbvars, current_voucher_id, date_entry, desc_entry,
                 selected_account_name, vouchers_tree, reports>> /\ backups_written' = <<>> /\ UNCHANGED anim
  /\ IF idx = 0
     THEN result' = "ok" /\ UNCHANGED entries
     ELSE /\ entries' = SubSeq(entries, 1, idx - 1) \o SubSeq(entries, idx + 1, Len(entries))
          /\ result' = "ok"

\* add_line on the draft es, with the date field, the account box and the two
\* amount fields as they stand: what it reports and the draft it leaves
add_line(D, es, date_text, account_cb, debit_text, credit_text) ==
  LET d   == parse_amount(debit_text)
      c   == parse_amount(credit_text)
      row == AccountIdByName(D, account_cb)
  IN  IF ~ is_valid_date(Strip(date_text)) THEN [result |-> "InvalidDate", entries |-> es]
      ELSE IF ValidateLine(d, c) /= "ok" THEN [result |-> "InvalidLine", entries |-> es]
      ELSE IF row = {} THEN [result |-> "SelectAValidAccount", entries |-> es]
      ELSE [result  |-> "LineAdded",
            entries |-> Append(es, [acc_id |-> CHOOSE i \in row : TRUE, label |-> account_cb,
                                    debit |-> d[1], credit |-> c[1]])]

AddLine(account_cb, debit_text, credit_text) ==
  LET o == add_line(Db, entries, date_entry, account_cb, debit_text, credit_text)
  IN  /\ entries' = o.entries
      /\ result' = o.result
      /\ UNCHANGED <<dbvars, current_voucher_id, date_entry, desc_entry,
                     selected_account_name, vouchers_tree, reports>> /\ backups_written' = <<>> /\ UNCHANGED anim

\* add_balancing_line that puts the difference on the side that is ahead
add_balancing_line_same_side(D, es, account_cb) ==
  LET row  == AccountIdByName(D, account_cb)
      diff == Round2(total_debit(es) - total_credit(es))
  IN  IF es = <<>> THEN [result |-> "ok", entries |-> es]
      ELSE IF row = {} THEN [result |-> "SelectAValidAccount", entries |-> es]
      ELSE IF diff = 0 THEN [result |-> "AlreadyBalanced", entries |-> es]
      ELSE [result  |-> "BalancingLineAdded",
            entries |-> Append(es,
              [acc_id |-> CHOOSE i \in row : TRUE, label |-> account_cb,
               debit  |-> IF diff > 0 THEN diff ELSE 0,
               credit |-> IF diff > 0 THEN 0 ELSE 0 - diff])]

\* add_balancing_line on the draft es, with the account box as it stands:
\* what it reports and the draft it leaves
add_balancing_line(D, es, account_cb) ==
  LET row  == AccountIdByName(D, account_cb)
      diff == Round2(total_debit(es) - total_credit(es))
  IN  IF es = <<>> THEN [result |-> "ok", entries |-> es]
      ELSE IF row = {} THEN [result |-> "SelectAValidAccount", entries |-> es]
      ELSE IF diff = 0 THEN [result |-> "AlreadyBalanced", entries |-> es]
      ELSE [result  |-> "BalancingLineAdded",
            entries |-> Append(es,
              [acc_id |-> CHOOSE i \in row : TRUE, label |-> account_cb,
               debit  |-> IF diff > 0 THEN 0 ELSE 0 - diff,
               credit |-> IF diff > 0 THEN diff ELSE 0])]

AddBalancingLine(account_cb) ==
  LET o == add_balancing_line(Db, entries, account_cb)
  IN  /\ entries' = o.entries
      /\ result' = o.result
      /\ UNCHANGED <<dbvars, current_voucher_id, date_entry, desc_entry,
                     selected_account_name, vouchers_tree, reports>> /\ backups_written' = <<>> /\ UNCHANGED anim

\* save_voucher with backup_database("pre_save") moved behind the atomic unit
save_voucher_backup_last(D, cur, date_text, desc_text, es) ==
  LET date == Strip(date_text)
      r    == Atomic(D, SaveStatements(D, cur, date, Strip(desc_text), es))
  IN  IF es = <<>> THEN [result |-> "NoLines", db |-> D, backups |-> <<>>]
      ELSE IF total_debit(es) /= total_credit(es)
      THEN [result |-> "Unbalanced", db |-> D, backups |-> <<>>]
      ELSE IF ~ is_valid_date(date) THEN [result |-> "InvalidDate", db |-> D, backups |-> <<>>]
      ELSE IF r.err /= "ok"
      THEN [result |-> r.err, db |-> r.db, backups |-> <<>>]
      ELSE [result |-> "VoucherSaved", db |-> r.db,
            backups |-> <<backup_database(r.db, "pre_save")>>]

\* save_voucher on the committed database D with the editor as it stands:
\* what it reports, the database it leaves committed and the backup files it
\* writes.  backup_database("pre_save") runs after the three checks and
\* before "with db.conn".
save_voucher(D, cur, date_text, desc_text, es) ==
  LET date == Strip(date_text)
      r    == Atomic(D, SaveStatements(D, cur, date, Strip(desc_text), es))
  IN  IF es = <<>> THEN [result |-> "NoLines", db |-> D, backups |-> <<>>]
      ELSE IF total_debit(es) /= total_credit(es)
      THEN [result |-> "Unbalanced", db |-> D, backups |-> <<>>]
      ELSE IF ~ is_valid_date(date) THEN [result |-> "InvalidDate", db |-> D, backups |-> <<>>]
      ELSE IF r.err /= "ok"
      THEN [result |-> r.err, db |-> r.db, backups |-> <<backup_database(D, "pre_save")>>]
      ELSE [result |-> "VoucherSaved", db |-> r.db,
            backups |-> <<backup_database(D, "pre_save")>>]

\* hist_from and hist_to are the history filter fields, read by the refresh
\* that follows a successful save
SaveVoucher(hist_from, hist_to) ==
  LET o == save_voucher(Db, current_voucher_id, date_entry, desc_entry, entries)
  IN  /\ result' = o.result
      /\ Commit(o.db)
      /\ backups_written' = o.backups /\ UNCHANGED anim
      /\ UNCHANGED selected_account_name
      /\ IF o.result = "VoucherSaved"
         THEN /\ cards' = refresh_dashboard(o.db)
              /\ refresh_voucher_history(o.db, hist_from, hist_to)
              /\ clear_voucher_form
              /\ UNCHANGED report_tree
         ELSE UNCHANGED <<editor, vouchers_tree, reports>>

\* ------------------------------------------------------------------ voucher history
\* "Refresh"
RefreshVoucherHistory(hist_from, hist_to) ==
  /\ refresh_voucher_history(Db, hist_from, hist_to)
  /\ result' = IF is_valid_date(Strip(hist_from)) /\ is_valid_date(Strip(hist_to))
               THEN "ok" ELSE "InvalidDate"
  /\ UNCHANGED <<dbvars, editor, selected_account_name, reports>> /\ backups_written' = <<>> /\ UNCHANGED anim

\* The editor as one value
Editor ==
  [entries |-> entries, current_voucher_id |-> current_voucher_id,
   date_entry |-> date_entry, desc_entry |-> desc_entry]

\* load_voucher_for_edit on the committed database D; sel is the id in the
\* selected history row, NoVoucher when no row is selected, ed the editor as
\* it stands: what it reports and the editor it leaves
load_voucher_for_edit(D, sel, ed) ==
  IF sel = NoVoucher THEN [result |-> "ok", editor |-> ed]
  ELSE IF ~ \E v \in D.vouchers : v.id = sel THEN [result |-> "NotFound", editor |-> ed]
  ELSE LET row == CHOOSE v \in D.vouchers : v.id = sel
       IN  [result |-> "VoucherLoaded",
            editor |-> [entries |-> LoadedEntries(D, sel), current_voucher_id |-> sel,
                        date_entry |-> row.date, desc_entry |-> row.description]]

LoadVoucherForEdit(sel) ==
  LET o == load_voucher_for_edit(Db, sel, Editor)
  IN  /\ sel = NoVoucher \/ sel \in vouchers_tree
      /\ result' = o.result
      /\ entries' = o.editor.entries
      /\ current_voucher_id' = o.editor.current_voucher_id
      /\ date_entry' = o.editor.date_entry
      /\ desc_entry' = o.editor.desc_entry
      /\ UNCHANGED <<dbvars, selected_account_name, vouchers_tree, reports>> /\ backups_written' = <<>> /\ UNCHANGED anim

\* delete_selected_voucher on the committed database D; confirm is the answer
\* to "Delete voucher ...?": what it reports and the database it leaves
\* committed
delete_selected_voucher(D, sel, confirm) ==
  LET r == Atomic(D, DeleteStatements(D, sel))
  IN  IF sel = NoVoucher THEN [result |-> "ok", db |-> D]
      ELSE IF ~ confirm THEN [result |-> "ok", db |-> D]
      ELSE IF r.err /= "ok" THEN [result |-> "DeleteFailed", db |-> D]
      ELSE [result |-> "VoucherDeleted", db |-> r.db]

\* hist_from and hist_to are the history filter fields, read by the refresh
\* that follows a successful delete
DeleteSelectedVoucher(sel, confirm, hist_from, hist_to) ==
  LET o == delete_selected_voucher(Db, sel, confirm)
  IN  /\ sel = NoVoucher \/ sel \in vouchers_tree
      /\ result' = o.result
      /\ Commit(o.db)
      /\ UNCHANGED <<editor, selected_account_name, report_tree>> /\ backups_written' = <<>> /\ UNCHANGED anim
      /\ IF o.result = "VoucherDeleted"
         THEN refresh_voucher_history(o.db, hist_from, hist_to) /\ cards' = refresh_dashboard(o.db)
         ELSE UNCHANGED <<vouchers_tree, cards>>

\* ------------------------------------------------------------------ reports
\* fmt: the amount with two decimals (and thousands separators)
fmt(amount) == Round2(amount)

\* s < t as Python and SQLite compare text
TextLess(s, t) == s /= t /\ TextLeq(s, t)

\* v.date BETWEEN ? AND ?
DateBetween(date, start, end) == TextLeq(start, date) /\ TextLeq(date, end)

\* FROM transactions t JOIN accounts a ON a.id = t.account_id
\*                     JOIN vouchers v ON v.id = t.voucher_id
\* Each joined row: the line with its account and its voucher.
JoinedLines(D) ==
  {[id |-> t.id, voucher_id |-> t.voucher_id, account_id |-> t.account_id,
    debit |-> t.debit, credit |-> t.credit,
    name |-> a.name, type |-> a.type, date |-> v.date, description |-> v.description] :
     <<t, a, v>> \in {x \in D.transactions \X D.accounts \X D.vouchers :
                        x[2].id = x[1].account_id /\ x[3].id = x[1].voucher_id}}

RECURSIVE SortByName(_)
\* ORDER BY a.name over a set of names (BINARY collation)
SortByName(names) ==
  IF names = {} THEN <<>>
  ELSE LET n == CHOOSE x \in names : \A y \in names : TextLeq(x, y)
       IN  <<n>> \o SortByName(names \ {n})

\* GROUP BY a.name: one group per name that has a row, in name order (SQLite
\* groups by sorting on the name)
GroupNames(rows) == SortByName({r.name : r \in rows})

GroupOf(rows, name) == {r \in rows : r.name = name}

\* animate_tree_rows without the tree.delete(...) of the rows on display
animate_tree_rows_keeps_rows(tree, rows) == tree \o rows

\* animate_tree_rows: the rows on display are deleted and the new ones
\* inserted one after the other; the tree once the last one is in
animate_tree_rows(tree, rows) == rows

\* ---- the timers behind animate_tree_rows
\* tree_anim_jobs.get(key) of a tree without an entry
NoJob == 0

\* str(tree) of the tables filled by animate_tree_rows that are followed
\* row by row
TreeKeys == {"report_tree"}

\* tree_anim_jobs = {} and no timer given out yet
NoJobs == [k \in TreeKeys |-> NoJob]

NoTimers == [last |-> 0, timers |-> {}]

\* if len(rows) > 180: the rows are inserted at once
SyncRowLimit == 180

\* root.after(ms, callback) with callback insert_next(idx) of the call
\* animate_tree_rows(key, rows): the timer waits under a new id
root_after(tk, key, rows, idx) ==
  [last   |-> tk.last + 1,
   timers |-> tk.timers \cup {[id |-> tk.last + 1, key |-> key, rows |-> rows, idx |-> idx]}]

\* root.after_cancel that leaves the timer waiting
root_after_cancel_noop(tk, id) == tk

\* root.after_cancel(id): the timer of that id, if it still waits, is dropped
root_after_cancel(tk, id) == [tk EXCEPT !.timers = {t \in @ : t.id /= id}]

\* insert_tree_row: the row goes to the end of the table (the even/odd tag
\* only colours it)
insert_tree_row(tree, values) == Append(tree, values)

\* animate_tree_rows up to its return: the timer on record for the tree is
\* cancelled, the table emptied, and the first insert_next put on a timer
animate_tree_rows_start(jobs, tk, key, rows) ==
  LET current_job == jobs[key]
      cancelled   == IF current_job /= NoJob THEN root_after_cancel(tk, current_job) ELSE tk
      started     == root_after(cancelled, key, rows, 0)
  IN  IF rows = <<>>
      THEN [jobs |-> jobs, tk |-> cancelled, tree |-> <<>>]
      ELSE IF Len(rows) > SyncRowLimit
      THEN [jobs |-> jobs, tk |-> cancelled, tree |-> rows]
      ELSE [jobs |-> [jobs EXCEPT ![key] = started.last], tk |-> started, tree |-> <<>>]

\* insert_next(idx) run by the timer t: rows[idx] is inserted, and the next
\* insert_next put on a timer or the entry of the tree popped
insert_next(jobs, tk, tree, t) ==
  LET fired == [tk EXCEPT !.timers = @ \ {t}]
      shown == insert_tree_row(tree, t.rows[t.idx + 1])
      next  == root_after(fired, t.key, t.rows, t.idx + 1)
  IN  IF t.idx + 1 < Len(t.rows)
      THEN [jobs |-> [jobs EXCEPT ![t.key] = next.last], tk |-> next, tree |-> shown]
      ELSE [jobs |-> [jobs EXCEPT ![t.key] = NoJob], tk |-> fired, tree |-> shown]

\* get_report_dates, with the From and To fields as typed
get_report_dates(from_text, to_text) ==
  LET start == Strip(from_text)
      end   == Strip(to_text)
  IN  IF ~ is_valid_date(start) \/ ~ is_valid_date(end)
      THEN [result |-> "InvalidDate", start |-> start, end |-> end]
      ELSE IF TextLess(end, start)
      THEN [result |-> "InvalidDateRange", start |-> start, end |-> end]
      ELSE [result |-> "ok", start |-> start, end |-> end]

\* generate_trial_balance with SUM(t.credit) taken over the vouchers of any date
generate_trial_balance_credit_unfiltered(D, tree, from_text, to_text) ==
  LET dates == get_report_dates(from_text, to_text)
      rows  == {r \in JoinedLines(D) : DateBetween(r.date, dates.start, dates.end)}
      names == GroupNames(rows)
      out   == [i \in 1..Len(names) |->
                  <<names[i], fmt(SqlSum(GroupOf(rows, names[i]), "debit")),
                    fmt(SqlSum(GroupOf(JoinedLines(D), names[i]), "credit"))>>]
  IN  IF dates.result /= "ok" THEN [result |-> dates.result, tree |-> tree]
      ELSE [result |-> "TrialBalance", tree |-> animate_tree_rows(tree, out)]

\* generate_trial_balance on the committed database D with the rows on
\* display: what it reports and the rows it leaves on display
generate_trial_balance(D, tree, from_text, to_text) ==
  LET dates == get_report_dates(from_text, to_text)
      rows  == {r \in JoinedLines(D) : DateBetween(r.date, dates.start, dates.end)}
      names == GroupNames(rows)
      out   == [i \in 1..Len(names) |->
                  <<names[i], fmt(SqlSum(GroupOf(rows, names[i]), "debit")),
                    fmt(SqlSum(GroupOf(rows, names[i]), "credit"))>>]
  IN  IF dates.result /= "ok" THEN [result |-> dates.result, tree |-> tree]
      ELSE [result |-> "TrialBalance", tree |-> animate_tree_rows(tree, out)]

\* SUM(t.credit - t.debit) of a group
CreditLessDebit(rows) == SqlSum(rows, "credit") - SqlSum(rows, "debit")

\* SUM(t.debit - t.credit) of a group
DebitLessCredit(rows) == SqlSum(rows, "debit") - SqlSum(rows, "credit")

RECURSIVE SumOver(_)
\* sum(r[1] or 0 for r in rows) over the rows of a query
SumOver(amounts) ==
  IF amounts = <<>> THEN 0 ELSE Head(amounts) + SumOver(Tail(amounts))

NetProfitLabel == <<"N", "e", "t", " ", "P", "r", "o", "f", "i", "t">>

NetLossLabel == <<"N", "e", "t", " ", "L", "o", "s", "s">>

NetCashLabel == <<"N", "e", "t", " ", "C", "a", "s", "h">>

\* The last row of the profit and loss report
NetRow(net) ==
  IF net >= 0 THEN <<NetProfitLabel, fmt(0), fmt(net)>>
  ELSE <<NetLossLabel, fmt(IF net < 0 THEN 0 - net ELSE net), fmt(0)>>

\* generate_pl on the committed database D with the rows on display
generate_pl(D, tree, from_text, to_text) ==
  LET dates    == get_report_dates(from_text, to_text)
      inrange  == {r \in JoinedLines(D) : DateBetween(r.date, dates.start, dates.end)}
      income   == {r \in inrange : r.type = "Income"}
      expense  == {r \in inrange : r.type = "Expense"}
      inames   == GroupNames(income)
      enames   == GroupNames(expense)
      irows    == [i \in 1..Len(inames) |->
                     <<inames[i], fmt(0), fmt(CreditLessDebit(GroupOf(income, inames[i])))>>]
      erows    == [i \in 1..Len(enames) |->
                     <<enames[i], fmt(DebitLessCredit(GroupOf(expense, enames[i]))), fmt(0)>>]
      net      == SumOver([i \in 1..Len(inames) |-> CreditLessDebit(GroupOf(income, inames[i]))])
                    - SumOver([i \in 1..Len(enames) |-> DebitLessCredit(GroupOf(expense, enames[i]))])
  IN  IF dates.result /= "ok" THEN [result |-> dates.result, tree |-> tree]
      ELSE [result |-> "ProfitAndLoss",
            tree   |-> animate_tree_rows(tree, irows \o erows \o <<NetRow(net)>>)]

\* v.date <= ?
DateUpTo(date, end) == TextLeq(date, end)

\* The joined rows of either balance sheet query before its type filter
BalanceSheetLines(D, start, end) == {r \in JoinedLines(D) : DateUpTo(r.date, end)}

\* generate_bs on the committed database D with the rows on display
generate_bs(D, tree, from_text, to_text) ==
  LET dates       == get_report_dates(from_text, to_text)
      upto        == BalanceSheetLines(D, dates.start, dates.end)
      assets      == {r \in upto : r.type = "Asset"}
      liabilities == {r \in upto : r.type = "Liability"}
      anames      == GroupNames(assets)
      lnames      == GroupNames(liabilities)
      arows       == [i \in 1..Len(anames) |->
                        <<anames[i], fmt(DebitLessCredit(GroupOf(assets, anames[i]))), fmt(0)>>]
      lrows       == [i \in 1..Len(lnames) |->
                        <<lnames[i], fmt(0), fmt(CreditLessDebit(GroupOf(liabilities, lnames[i])))>>]
  IN  IF dates.result /= "ok" THEN [result |-> dates.result, tree |-> tree]
      ELSE [result |-> "BalanceSheet", tree |-> animate_tree_rows(tree, arows \o lrows)]

\* ORDER BY v.date, v.id, t.id: r comes no later than q
LedgerOrder(r, q) ==
  \/ TextLess(r.date, q.date)
  \/ r.date = q.date /\ r.voucher_id < q.voucher_id
  \/ r.date = q.date /\ r.voucher_id = q.voucher_id /\ r.id <= q.id

RECURSIVE SortLedger(_)
SortLedger(rows) ==
  IF rows = {} THEN <<>>
  ELSE LET r == CHOOSE x \in rows : \A y \in rows : LedgerOrder(x, y)
       IN  <<r>> \o SortLedger(rows \ {r})

\* (debit - credit) if account_type in ("Asset", "Expense") else (credit - debit)
NaturalDelta(type, debit, credit) ==
  IF type \in {"Asset", "Expense"} THEN debit - credit ELSE credit - debit

\* The opening balance query: the account's lines on vouchers with v.date < ?
OpeningBalance(D, account_id, type, start) ==
  LET before == {t \in D.transactions :
                   /\ t.account_id = account_id
                   /\ \E v \in D.vouchers : v.id = t.voucher_id /\ TextLess(v.date, start)}
  IN  NaturalDelta(type, SqlSum(before, "debit"), SqlSum(before, "credit"))

RECURSIVE LedgerRows(_, _, _)
\* for r in rows: balance += delta; one table row per line
LedgerRows(rows, type, balance) ==
  IF rows = <<>> THEN <<>>
  ELSE LET r    == Head(rows)
           next == balance + NaturalDelta(type, r.debit, r.credit)
       IN  <<<<r.date, r.description, fmt(r.debit), fmt(r.credit), fmt(next)>>>>
             \o LedgerRows(Tail(rows), type, next)

\* generate_general_ledger on the committed database D with the rows on
\* display; account_cb is the account box of the report bar
generate_general_ledger(D, tree, from_text, to_text, account_cb) ==
  LET dates        == get_report_dates(from_text, to_text)
      account_name == Strip(account_cb)
      found        == {a \in D.accounts : a.name = account_name}
      row          == CHOOSE a \in found : TRUE
      rows         == SortLedger({r \in JoinedLines(D) :
                                    /\ r.account_id = row.id
                                    /\ DateBetween(r.date, dates.start, dates.end)})
      opening      == OpeningBalance(D, row.id, row.type, dates.start)
  IN  IF dates.result /= "ok" THEN [result |-> dates.result, tree |-> tree]
      ELSE IF account_name = <<>> THEN [result |-> "SelectAnAccount", tree |-> tree]
      ELSE IF found = {} THEN [result |-> "AccountNotFound", tree |-> tree]
      ELSE [result |-> "GeneralLedger",
            tree   |-> animate_tree_rows(tree, LedgerRows(rows, row.type, Round2(opening)))]

RECURSIVE Split(_, _)
\* str.split(sep)
Split(s, sep) ==
  LET i == IndexIn(sep, s, 1)
  IN  IF i = 0 THEN <<s>>
      ELSE <<SubSeq(s, 1, i - 1)>> \o Split(SubSeq(s, i + 1, Len(s)), sep)

\* [n.strip() for n in raw_cash.split(",") if n.strip()], as a set: the
\* names are only used in "a.name IN (...)"
CashNamesTyped(cash_text) ==
  LET parts == Split(Strip(cash_text), ",")
  IN  {Strip(parts[i]) : i \in 1..Len(parts)} \ {<<>>}

\* pattern LIKE '%word%' on text that LOWER() has folded
Contains(s, word) ==
  \E i \in 1..(Len(s) - Len(word) + 1) : SubSeq(s, i, i + Len(word) - 1) = word

\* The default cash accounts found by the word "cash" alone
CashNamesFound_cash_only(D) ==
  {a.name : a \in {x \in D.accounts : Contains(SqlLower(x.name), <<"c", "a", "s", "h">>)}}

\* SELECT name FROM accounts WHERE LOWER(name) LIKE '%cash%' OR LOWER(name) LIKE '%bank%'
CashNamesFound(D) ==
  {a.name : a \in {x \in D.accounts :
                      \/ Contains(SqlLower(x.name), <<"c", "a", "s", "h">>)
                      \/ Contains(SqlLower(x.name), <<"b", "a", "n", "k">>)}}

\* The names generate_cash_flow reports on: those typed, else those found
cash_names(D, cash_text) ==
  IF CashNamesTyped(cash_text) /= {} THEN CashNamesTyped(cash_text) ELSE CashNamesFound(D)

\* generate_cash_flow on the committed database D with the rows on display;
\* cash_text is the "Cash Accts" field
generate_cash_flow(D, tree, from_text, to_text, cash_text) ==
  LET dates == get_report_dates(from_text, to_text)
      rows  == {r \in JoinedLines(D) :
                  /\ r.name \in cash_names(D, cash_text)
                  /\ DateBetween(r.date, dates.start, dates.end)}
      names == GroupNames(rows)
      out   == [i \in 1..Len(names) |->
                  <<names[i], fmt(SqlSum(GroupOf(rows, names[i]), "debit")),
                    fmt(SqlSum(GroupOf(rows, names[i]), "credit"))>>]
      net   == <<NetCashLabel, fmt(SqlSum(rows, "debit")), fmt(SqlSum(rows, "credit"))>>
  IN  IF dates.result /= "ok" THEN [result |-> dates.result, tree |-> tree]
      ELSE IF cash_names(D, cash_text) = {} THEN [result |-> "NoCashAccounts", tree |-> tree]
      ELSE [result |-> "CashFlow", tree |-> animate_tree_rows(tree, out \o <<net>>)]

\* The report buttons; date_from, date_to, the account box and the cash
\* accounts field hold what the user typed or picked
GenerateTrialBalance(date_from, date_to) ==
  LET o == generate_trial_balance(Db, report_tree, date_from, date_to)
  IN  /\ report_tree' = o.tree
      /\ result' = o.result
      /\ UNCHANGED <<dbvars, editor, selected_account_name, vouchers_tree, cards>> /\ backups_written' = <<>> /\ UNCHANGED anim

GeneratePL(date_from, date_to) ==
  LET o == generate_pl(Db, report_tree, date_from, date_to)
  IN  /\ report_tree' = o.tree
      /\ result' = o.result
      /\ UNCHANGED <<dbvars, editor, selected_account_name, vouchers_tree, cards>> /\ backups_written' = <<>> /\ UNCHANGED anim

GenerateBS(date_from, date_to) ==
  LET o == generate_bs(Db, report_tree, date_from, date_to)
  IN  /\ report_tree' = o.tree
      /\ result' = o.result
      /\ UNCHANGED <<dbvars, editor, selected_account_name, vouchers_tree, cards>> /\ backups_written' = <<>> /\ UNCHANGED anim

GenerateGeneralLedger(date_from, date_to, account_cb) ==
  LET o == generate_general_ledger(Db, report_tree, date_from, date_to, account_cb)
  IN  /\ report_tree' = o.tree
      /\ result' = o.result
      /\ UNCHANGED <<dbvars, editor, selected_account_name, vouchers_tree, cards>> /\ backups_written' = <<>> /\ UNCHANGED anim

GenerateCashFlow(date_from, date_to, cash_text) ==
  LET o == generate_cash_flow(Db, report_tree, date_from, date_to, cash_text)
  IN  /\ report_tree' = o.tree
      /\ result' = o.result
      /\ UNCHANGED <<dbvars, editor, selected_account_name, vouchers_tree, cards>> /\ backups_written' = <<>> /\ UNCHANGED anim

\* "Refresh Dashboard"
RefreshDashboard ==
  /\ cards' = refresh_dashboard(Db)
  /\ result' = "Dashboard"
  /\ UNCHANGED <<dbvars, editor, selected_account_name, vouchers_tree, report_tree>> /\ backups_written' = <<>> /\ UNCHANGED anim

\* ------------------------------------------------------------------ start-up
\* The program is closed and started again: Database() runs _init_schema on
\* the file, the forms come up empty and the history is refreshed with its
\* default filter.  A failing _init_schema ends the start.
Restart ==
  LET r == SqlInitSchema(Db)
  IN  IF r.err /= "ok"
      THEN result' = "StartupFailed" /\ UNCHANGED <<dbvars, editor, selected_account_name, vouchers_tree, reports>> /\ backups_written' = <<>> /\ UNCHANGED anim
      ELSE /\ Commit(r.db)
           /\ clear_voucher_form
           /\ selected_account_name' = None
           /\ vouchers_tree' = HistoryRows(r.db, HistFromDefault, Today)
           /\ cards' = refresh_dashboard(r.db)
           /\ report_tree' = <<>>
           /\ backups_written' = <<backup_database(r.db, "startup")>>
           /\ tree_anim_jobs' = NoJobs
           /\ after_jobs' = NoTimers
           /\ animated_rows' = <<>>
           /\ result' = "Started"

Init ==
  /\ accounts = {}
  /\ vouchers = {}
  /\ transactions = {}
  /\ seq = EmptyDb.seq
  /\ entries = <<>>
  /\ current_voucher_id = NoVoucher
  /\ date_entry = Today
  /\ desc_entry = <<>>
  /\ selected_account_name = None
  /\ vouchers_tree = {}
  /\ report_tree = <<>>
  /\ cards = refresh_dashboard(EmptyDb)
  /\ backups_written = <<backup_database(EmptyDb, "startup")>>
  /\ tree_anim_jobs = NoJobs
  /\ after_jobs = NoTimers
  /\ animated_rows = <<>>
  /\ result = "Started"

\* ------------------------------------------------------------------ specifications
\* The ids and the draft stay within the bounds
RoomForAccount(max) == seq.accounts < max

RoomForLine == Len(entries) < MaxLines

RoomForSave ==
  /\ current_voucher_id = NoVoucher => seq.vouchers < MaxVoucherId
  /\ seq.transactions + Len(entries) <= MaxTxId

\* The application: every handler of the chart of accounts, the voucher form
\* and the voucher history, and a restart
Next ==
  \/ \E f \in VoucherFormAccounts : RoomForAccount(MaxAccountId) /\ AddAccount(f[1], f[2])
  \/ \E n \in NamesOf(VoucherFormAccounts) : OnAccountSelect(n)
  \/ clear_account_form
  \/ \E f \in VoucherFormAccounts : UpdateAccount(f[1], f[2])
  \/ \E k \in BOOLEAN : DeleteAccount(k)
  \/ \E h \in HeaderInputs : TypeHeader(h[1], h[2])
  \/ ClearVoucherForm
  \/ \E i \in 0..Len(entries) : RemoveSelectedLine(i)
  \/ \E a \in NamesOf(VoucherFormAccounts), m \in AmountInputs : RoomForLine /\ AddLine(a, m[1], m[2])
  \/ \E a \in NamesOf(VoucherFormAccounts) : RoomForLine /\ AddBalancingLine(a)
  \/ \E h \in HistFilterInputs : RoomForSave /\ SaveVoucher(h[1], h[2])
  \/ \E h \in HistFilterInputs : RefreshVoucherHistory(h[1], h[2])
  \/ \E v \in 0..MaxVoucherId : LoadVoucherForEdit(v)
  \/ \E v \in 0..MaxVoucherId, k \in BOOLEAN, h \in HistFilterInputs :
       DeleteSelectedVoucher(v, k, h[1], h[2])
  \/ Restart

Spec == Init /\ [][Next]_vars

\* The chart of accounts alone, with every name of AccountFormInputs
NextAccounts ==
  \/ \E f \in AccountFormInputs : RoomForAccount(MaxChartId) /\ AddAccount(f[1], f[2])
  \/ \E n \in NamesOf(AccountFormInputs) : OnAccountSelect(n)
  \/ clear_account_form
  \/ \E f \in AccountFormInputs : UpdateAccount(f[1], f[2])
  \/ \E k \in BOOLEAN : DeleteAccount(k)

SpecAccounts == Init /\ [][NextAccounts]_vars

\* The user fills the empty voucher form and saves it: the date, "Add Line"
\* with a debit of 0.014 on one account, "Add Line" with a credit of 0.014 on
\* another, "Save Voucher"
EnterVoucher(date_text, debit_cb, credit_cb) ==
  LET l1 == add_line(Db, <<>>, date_text, debit_cb, Num(14), Blank)
      l2 == add_line(Db, l1.entries, date_text, credit_cb, Blank, Num(14))
      o  == save_voucher(Db, NoVoucher, date_text, <<>>, l2.entries)
  IN  /\ entries = <<>> /\ current_voucher_id = NoVoucher
      /\ result' = o.result
      /\ Commit(o.db)
      /\ backups_written' = o.backups /\ UNCHANGED anim
      /\ UNCHANGED <<selected_account_name, report_tree>>
      /\ IF o.result = "VoucherSaved"
         THEN /\ cards' = refresh_dashboard(o.db)
              /\ refresh_voucher_history(o.db, HistFromDefault, Today)
              /\ clear_voucher_form
         ELSE /\ entries' = l2.entries
              /\ date_entry' = date_text
              /\ UNCHANGED <<current_voucher_id, desc_entry, vouchers_tree, cards>>

\* The books: accounts of every type, vouchers from one account to another,
\* deletions
NextBooks ==
  \/ \E f \in ReportAccountForms : RoomForAccount(MaxChartId) /\ AddAccount(f[1], f[2])
  \/ \E d \in ReportVoucherDates, a, b \in {x.name : x \in accounts} :
       a /= b /\ seq.vouchers < MaxVoucherId /\ EnterVoucher(d, a, b)
  \/ \E v \in 1..MaxVoucherId : DeleteSelectedVoucher(v, TRUE, HistFromDefault, Today)

SpecBooks == Init /\ [][NextBooks]_vars

\* The books with a chart of accounts that changes: accounts are picked in
\* the list and renamed or given another type while vouchers reference them
NextRetype ==
  \/ \E f \in ReportAccountForms : RoomForAccount(MaxChartId) /\ AddAccount(f[1], f[2])
  \/ \E n \in NamesOf(ReportAccountForms) : OnAccountSelect(n)
  \/ \E f \in ReportAccountForms : UpdateAccount(f[1], f[2])
  \/ \E a, b \in {x.name : x \in accounts} :
       a /= b /\ seq.vouchers < MaxVoucherId /\ EnterVoucher(Jan01, a, b)
  \/ \E v \in 1..MaxVoucherId : DeleteSelectedVoucher(v, TRUE, HistFromDefault, Today)

SpecRetype == Init /\ [][NextRetype]_vars

\* Vouchers are entered, loaded from the history, changed in the editor,
\* saved again and deleted
NextEdit ==
  \/ \E f \in EditAccountForms : RoomForAccount(MaxChartId) /\ AddAccount(f[1], f[2])
  \/ \E a, b \in {x.name : x \in accounts} :
       a /= b /\ seq.vouchers < MaxVoucherId /\ EnterVoucher(Jan01, a, b)
  \/ \E v \in 1..MaxVoucherId : LoadVoucherForEdit(v)
  \/ \E h \in EditHeaderInputs : current_voucher_id /= NoVoucher /\ TypeHeader(h[1], h[2])
  \/ \E i \in 1..Len(entries) : current_voucher_id /= NoVoucher /\ RemoveSelectedLine(i)
  \/ \E a \in {x.name : x \in accounts}, m \in EditAmountInputs :
       current_voucher_id /= NoVoucher /\ RoomForLine /\ AddLine(a, m[1], m[2])
  \/ /\ current_voucher_id /= NoVoucher
     /\ seq.transactions + Len(entries) <= MaxEditTxId
     /\ SaveVoucher(HistFromDefault, Today)
  \/ \E v \in 1..MaxVoucherId : DeleteSelectedVoucher(v, TRUE, HistFromDefault, Today)

SpecEdit == Init /\ [][NextEdit]_vars

\* The books a report is run on: they are written before the first rows are
\* on display and then left as they are
WriteBooks ==
  /\ report_tree = <<>>
  /\ \/ \E f \in ReportAccountForms : RoomForAccount(MaxChartId) /\ AddAccount(f[1], f[2])
     \/ \E d \in ReportVoucherDates, a, b \in {x.name : x \in accounts} :
          a /= b /\ seq.vouchers < MaxVoucherId /\ EnterVoucher(d, a, b)

NextTrialBalance ==
  \/ WriteBooks
  \/ \E f \in ReportDateInputs : GenerateTrialBalance(f[1], f[2])

SpecTrialBalance == Init /\ [][NextTrialBalance]_vars

NextPL ==
  \/ WriteBooks
  \/ \E f \in ReportDateInputs : GeneratePL(f[1], f[2])

SpecPL == Init /\ [][NextPL]_vars

NextBS ==
  \/ WriteBooks
  \/ \E f \in ReportDateInputs : GenerateBS(f[1], f[2])

SpecBS == Init /\ [][NextBS]_vars

\* The account box of the report bar lists the accounts; none may be picked
NextGeneralLedger ==
  \/ WriteBooks
  \/ \E f \in ReportDateInputs, a \in {x.name : x \in accounts} \cup {<<>>} :
       GenerateGeneralLedger(f[1], f[2], a)

SpecGeneralLedger == Init /\ [][NextGeneralLedger]_vars

NextCashFlow ==
  \/ WriteBooks
  \/ \E f \in ReportDateInputs, c \in CashInputs : GenerateCashFlow(f[1], f[2], c)

SpecCashFlow == Init /\ [][NextCashFlow]_vars

\* The report page: every report button and "Refresh Dashboard", with From
\* and To left at 1 January and 28 February and "Cash Accts" left empty
NextReports ==
  \/ WriteBooks
  \/ GenerateTrialBalance(Jan01, Feb28)
  \/ GeneratePL(Jan01, Feb28)
  \/ GenerateBS(Jan01, Feb28)
  \/ \E a \in {x.name : x \in accounts} \cup {<<>>} : GenerateGeneralLedger(Jan01, Feb28, a)
  \/ GenerateCashFlow(Jan01, Feb28, <<>>)
  \/ RefreshDashboard

SpecReports == Init /\ [][NextReports]_vars

\* ---- the report table followed timer by timer
\* Dates typed into the voucher form and the From and To fields: a range
\* around both vouchers, one after the first of them, one the wrong way round
AnimVoucherDates == { Jan01, Feb28 }

AnimDateInputs == { <<Jan01, Feb28>>, <<Jan15, Feb28>>, <<Feb28, Jan15>> }

\* The "Trial Balance" button up to the return of generate_trial_balance:
\* the rows are computed and handed to animate_tree_rows, which leaves the
\* first insert_next on a timer
ShowTrialBalance(date_from, date_to) ==
  LET o == generate_trial_balance(Db, report_tree, date_from, date_to)
      a == animate_tree_rows_start(tree_anim_jobs, after_jobs, "report_tree", o.tree)
  IN  /\ result' = o.result
      /\ IF o.result = "TrialBalance"
         THEN /\ report_tree' = a.tree
              /\ tree_anim_jobs' = a.jobs
              /\ after_jobs' = a.tk
              /\ animated_rows' = o.tree
         ELSE UNCHANGED <<report_tree, anim>>
      /\ UNCHANGED <<dbvars, editor, selected_account_name, vouchers_tree, cards>>
      /\ backups_written' = <<>>

\* The main loop runs a timer that waits: insert_next
InsertNext ==
  \E t \in after_jobs.timers :
    LET a == insert_next(tree_anim_jobs, after_jobs, report_tree, t)
    IN  /\ t.key = "report_tree"
        /\ report_tree' = a.tree
        /\ tree_anim_jobs' = a.jobs
        /\ after_jobs' = a.tk
        /\ result' = "RowInserted"
        /\ UNCHANGED <<dbvars, editor, selected_account_name, vouchers_tree, cards, animated_rows>>
        /\ backups_written' = <<>>

\* Accounts and vouchers are entered and the trial balance asked for at any
\* moment, also while rows of the one before are still to come
NextAnimate ==
  \/ \E f \in EditAccountForms : RoomForAccount(MaxChartId) /\ AddAccount(f[1], f[2])
  \/ \E d \in AnimVoucherDates, a, b \in {x.name : x \in accounts} :
       a /= b /\ seq.vouchers < MaxVoucherId /\ EnterVoucher(d, a, b)
  \/ \E f \in AnimDateInputs :
       after_jobs.last + MaxChartId <= MaxJobId /\ ShowTrialBalance(f[1], f[2])
  \/ InsertNext

SpecAnimate == Init /\ [][NextAnimate]_vars

\* root.mainloop() runs every timer that is due and not cancelled
FairSpecAnimate == Init /\ [][NextAnimate]_vars /\ WF_vars(InsertNext)

\* ------------------------------------------------------------------ statements
\* One statement on the schema, run on its own and committed as through
\* Database.execute: the database is the statement's result, result its error
Execute(r) ==
  /\ Commit(r.db)
  /\ result' = r.err
  /\ UNCHANGED <<editor, selected_account_name, vouchers_tree, reports>> /\ backups_written' = <<>> /\ UNCHANGED anim

StmtInsertAccount(name, type) == Execute(SqlInsertAccount(Db, name, type))

StmtDeleteAccount(name) == Execute(SqlDeleteAccount(Db, name))

StmtInsertVoucher(date, description) == Execute(SqlInsertVoucher(Db, date, description))

StmtUpdateVoucherHeader(date, description, vid) ==
  Execute(SqlUpdateVoucherHeader(Db, date, description, vid))

StmtSetPosted(vid, posted) == Execute(SqlSetPosted(Db, vid, posted))

StmtDeleteVoucher(vid) == Execute(SqlDeleteVoucher(Db, vid))

StmtInsertTransaction(vid, aid, debit, credit) ==
  Execute(SqlInsertTransaction(Db, vid, aid, debit, credit))

\* UPDATE transactions SET voucher_id=?, debit=?, credit=? WHERE id=?
StmtUpdateTransaction(tid, vid, debit, credit) ==
  LET hit == {t \in transactions : t.id = tid}
      aid == IF hit = {} THEN 0 ELSE (CHOOSE t \in hit : TRUE).account_id
  IN  Execute(SqlUpdateTransaction(Db, tid, vid, aid, debit, credit))

\* DELETE FROM transactions WHERE id=?
StmtDeleteTransaction(tid) ==
  Execute(SqlDeleteTransactions(Db, {t \in transactions : t.id = tid}))

\* DELETE FROM transactions WHERE voucher_id=?
StmtDeleteTransactionsOf(vid) == Execute(SqlDeleteTransactions(Db, LinesOf(Db, vid)))

StmtInitSchema == Execute(SqlInitSchema(Db))

\* Accounts bound to an account statement: one name, with a type and without
StmtAccounts == { <<<<"c">>, "Asset">>, <<<<"c">>, "">> }

\* Amounts bound to a line statement: a debit and a credit of 0.01, a credit
\* of 0.014 (the column is REAL and keeps it), and a line of nothing
StmtAmounts == { <<10, 0>>, <<0, 10>>, <<0, 14>>, <<0, 0>> }

\* The storage layer: the statements the handlers issue, and the other line
\* statements the schema has triggers for, each run on its own
NextStmt ==
  \/ \E f \in StmtAccounts : RoomForAccount(MaxAccountId) /\ StmtInsertAccount(f[1], f[2])
  \/ \E f \in StmtAccounts : StmtDeleteAccount(f[1])
  \/ seq.vouchers < MaxVoucherId /\ StmtInsertVoucher(Today, <<>>)
  \/ \E v \in 1..MaxVoucherId : StmtUpdateVoucherHeader(Today, <<>>, v)
  \/ \E v \in 1..MaxVoucherId, p \in {0, 1} : StmtSetPosted(v, p)
  \/ \E v \in 1..MaxVoucherId : StmtDeleteVoucher(v)
  \/ \E v \in 1..MaxVoucherId, a \in 1..MaxAccountId, m \in StmtAmounts :
       seq.transactions < MaxStmtTxId /\ StmtInsertTransaction(v, a, m[1], m[2])
  \/ \E t \in 1..MaxStmtTxId, v \in 1..MaxVoucherId, m \in StmtAmounts :
       StmtUpdateTransaction(t, v, m[1], m[2])
  \/ \E t \in 1..MaxStmtTxId : StmtDeleteTransaction(t)
  \/ \E v \in 1..MaxVoucherId : StmtDeleteTransactionsOf(v)
  \/ StmtInitSchema

SpecStmt == Init /\ [][NextStmt]_vars

\* ------------------------------------------------------------------ C1
\* The lines and totals of a voucher as trg_voucher_post_balanced reads them
Balanced(D, vid) ==
  /\ Cardinality(LinesOf(D, vid)) >= 2
  /\ Round2(SqlSum(LinesOf(D, vid), "debit")) = Round2(SqlSum(LinesOf(D, vid), "credit"))

\* C1: in every committed state every voucher whose status is Posted has at
\* least two transaction lines, and its debit total equals its credit total
\* at two-decimal precision.  Stated over SpecStmt, whose steps are the single
\* statements on vouchers and transactions that every handler's commit and
\* every restart is made of (a statement on accounts changes neither table),
\* so it holds of every state a sequence of handlers and restarts can commit.
C1_PostedBalanced == \A v \in vouchers : v.posted = 1 => Balanced(Db, v.id)

\* A voucher was posted whose raw totals differ (0.010 against 0.014) and
\* agree once rounded
C1_Witness ==
  /\ result = "ok"
  /\ \E v \in vouchers :
       /\ v.posted = 1
       /\ SqlSum(LinesOf(Db, v.id), "debit") /= SqlSum(LinesOf(Db, v.id), "credit")

\* ------------------------------------------------------------------ C3
Locked == Fail("sql:PostedVoucherLocked", Db)

\* C3: an insert, update or delete of a transaction line whose owning voucher
\* is Posted fails with PostedVoucherLocked and leaves every line, and the
\* voucher, as it was.
C3_PostedLocked ==
  /\ \A v \in 1..MaxVoucherId, a \in 1..MaxAccountId, m \in StmtAmounts :
       IsPosted(Db, v) => SqlInsertTransaction(Db, v, a, m[1], m[2]) = Locked
  /\ \A t \in transactions :
       IsPosted(Db, t.voucher_id) =>
         /\ \A v \in 1..MaxVoucherId, m \in StmtAmounts :
              SqlUpdateTransaction(Db, t.id, v, t.account_id, m[1], m[2]) = Locked
         /\ SqlDeleteTransactions(Db, {t}) = Locked
         /\ SqlDeleteTransactions(Db, LinesOf(Db, t.voucher_id)) = Locked

\* A line statement was refused while a Posted voucher holds its lines
C3_Witness ==
  /\ result = "sql:PostedVoucherLocked"
  /\ \E v \in vouchers : v.posted = 1 /\ Cardinality(LinesOf(Db, v.id)) >= 2

\* ------------------------------------------------------------------ C2
OneSided(debit, credit) ==
  /\ debit >= 0
  /\ credit >= 0
  /\ (debit > 0) /= (credit > 0)

\* A candidate line, as parsed amounts, that is negative, both-positive or
\* both-zero
BadCandidate(d, c) ==
  /\ d /= NoAmount
  /\ c /= NoAmount
  /\ \/ d[1] < 0
     \/ c[1] < 0
     \/ d[1] > 0 /\ c[1] > 0
     \/ d[1] = 0 /\ c[1] = 0

C2_Persisted == \A t \in transactions : OneSided(t.debit, t.credit)

C2_Rejected ==
  \A a \in NamesOf(VoucherFormAccounts), m \in AmountInputs :
    BadCandidate(parse_amount(m[1]), parse_amount(m[2])) =>
      LET o == add_line(Db, entries, date_entry, a, m[1], m[2])
      IN  o.entries = entries /\ o.result \in {"InvalidLine", "InvalidDate"}

\* C2: every persisted transaction line has exactly one of debit and credit
\* strictly positive, the other zero and neither negative; and add_line
\* refuses a candidate line that is both-positive, both-zero or negative,
\* leaving the draft lines as they were.
C2_LineInvariant == C2_Persisted /\ C2_Rejected

\* add_line has refused a line while the draft and the database hold lines
C2_Witness ==
  /\ result = "InvalidLine"
  /\ entries /= <<>>
  /\ transactions /= {}

\* ------------------------------------------------------------------ C4 .. C6
\* What save_voucher would report and commit in this state
SaveOutcome == save_voucher(Db, current_voucher_id, date_entry, desc_entry, entries)

RECURSIVE ColumnSum(_, _)
ColumnSum(es, col) == IF es = <<>> THEN 0 ELSE Head(es)[col] + ColumnSum(Tail(es), col)

DraftBalanced == Round2(ColumnSum(entries, "debit")) = Round2(ColumnSum(entries, "credit"))

\* C4: save_voucher on a draft whose rounded debit total differs from its
\* rounded credit total reports Unbalanced, when creating and when editing,
\* and commits nothing: vouchers, their status and their lines stay as they
\* were.
C4_UnbalancedRejected ==
  ~ DraftBalanced => SaveOutcome.result = "Unbalanced" /\ SaveOutcome.db = Db

\* An edit of a Posted voucher was refused as unbalanced and the voucher is
\* still Posted with its two lines
C4_Witness ==
  /\ result = "Unbalanced"
  /\ ~ DraftBalanced
  /\ current_voucher_id /= NoVoucher
  /\ IsPosted(Db, current_voucher_id)
  /\ Cardinality(LinesOf(Db, current_voucher_id)) = 2

\* C5: save_voucher is all-or-nothing: when it does not report success, the
\* committed database is the one before the call, with no voucher inserted,
\* no status cleared, no line deleted and none inserted (nor an id used up).
C5_AllOrNothing == SaveOutcome.result /= "VoucherSaved" => SaveOutcome.db = Db

\* A statement inside the atomic unit failed: the draft's account was deleted
\* after the lines were added, and no voucher was committed
C5_Witness ==
  /\ result = "sql:ForeignKey"
  /\ current_voucher_id = NoVoucher
  /\ Len(entries) = 2
  /\ accounts = {}
  /\ vouchers = {}
  /\ seq.vouchers = 0

\* The draft is non-empty and balanced, its date is a date and every line's
\* account exists
SaveableDraft ==
  /\ is_valid_date(Strip(date_entry))
  /\ entries /= <<>>
  /\ DraftBalanced
  /\ \A i \in 1..Len(entries) : \E a \in accounts : a.id = entries[i].acc_id

\* The voucher save_voucher writes: the edited one, or the next id
SavedId == IF current_voucher_id = NoVoucher THEN seq.vouchers + 1 ELSE current_voucher_id

\* The lines of a voucher in id order, as account, debit, credit
PersistedLines(D, vid) ==
  LET rows == SortById(LinesOf(D, vid))
  IN  [i \in 1..Len(rows) |-> <<rows[i].account_id, rows[i].debit, rows[i].credit>>]

SavedAsSubmitted ==
  /\ SaveOutcome.result = "VoucherSaved"
  /\ IsPosted(SaveOutcome.db, SavedId)
  /\ PersistedLines(SaveOutcome.db, SavedId)
       = [i \in 1..Len(entries) |-> <<entries[i].acc_id, entries[i].debit, entries[i].credit>>]

\* C6 as stated: whenever save_voucher is called with a valid date and a
\* non-empty balanced line set over existing accounts it succeeds, and the
\* voucher is persisted Posted with exactly the submitted lines in order.
C6_AlwaysSucceeds == SaveableDraft => SavedAsSubmitted

\* C6 (amended): the same, for a new voucher and for an edited voucher that
\* still exists.
C6_SucceedsIfVoucherExists ==
  SaveableDraft /\ (current_voucher_id = NoVoucher \/ \E v \in vouchers : v.id = current_voucher_id)
    => SavedAsSubmitted

\* A save has succeeded and left a Posted voucher holding two lines
C6_Witness ==
  /\ result = "VoucherSaved"
  /\ \E v \in vouchers : v.posted = 1 /\ Cardinality(LinesOf(Db, v.id)) = 2

\* ------------------------------------------------------------------ C7
Referenced(a) == \E t \in transactions : t.account_id = a.id

\* C7: delete_account on an account some transaction line references reports
\* AccountInUse and leaves the account and every line in place; on an account
\* no line references it succeeds and removes that account alone.
C7_DeleteAccount ==
  \A a \in accounts :
    LET o == delete_account(Db, a.name, TRUE)
    IN  IF Referenced(a)
        THEN o.result = "AccountInUse" /\ o.db = Db
        ELSE /\ o.result = "AccountDeleted"
             /\ o.db = [Db EXCEPT !.accounts = @ \ {a}]

\* A delete was refused for an account that a line references
C7_Witness ==
  /\ result = "AccountInUse"
  /\ \E a \in accounts : a.name = selected_account_name /\ Referenced(a)

\* ------------------------------------------------------------------ C8
\* C8 as stated: after any sequence of add_account, update_account and
\* delete_account no two accounts have names that are equal ignoring case.
C8_NoCaseDuplicates ==
  \A a \in accounts, b \in accounts :
    a.id /= b.id => FoldCase(a.name) /= FoldCase(b.name)

\* ------------------------------------------------------------------ C9
\* C9: delete_selected_voucher on an existing voucher succeeds; afterwards
\* the voucher and the lines it owned are gone, and every other voucher, every
\* other line and every account is as it was.
C9_DeleteVoucher ==
  \A v \in vouchers :
    LET o == delete_selected_voucher(Db, v.id, TRUE)
    IN  /\ o.result = "VoucherDeleted"
        /\ o.db.vouchers = vouchers \ {v}
        /\ o.db.transactions = transactions \ LinesOf(Db, v.id)
        /\ o.db.accounts = accounts

\* A Posted voucher was deleted with its lines while another voucher and its
\* lines stayed
C9_Witness ==
  /\ result = "VoucherDeleted"
  /\ Cardinality(vouchers) = 1
  /\ seq.vouchers = 2
  /\ Cardinality(transactions) = 2
  /\ seq.transactions = 4

\* ------------------------------------------------------------------ C10
\* The rows of the voucher history whose voucher no longer exists
StaleRows == {sel \in vouchers_tree : ~ \E v \in vouchers : v.id = sel}

\* C10 as stated: on an id no voucher has, delete_selected_voucher and
\* load_voucher_for_edit both report NotFound, and the database and the
\* editor stay as they were.
C10_NotFound ==
  \A sel \in StaleRows :
    /\ delete_selected_voucher(Db, sel, TRUE) = [result |-> "NotFound", db |-> Db]
    /\ load_voucher_for_edit(Db, sel, Editor) = [result |-> "NotFound", editor |-> Editor]

\* ------------------------------------------------------------------ C11
\* YYYY-MM-DD with every field at its full width
PaddedDate(s) ==
  /\ Len(s) = 10
  /\ s[5] = "-" /\ s[8] = "-"
  /\ \A i \in {1, 2, 3, 4, 6, 7, 9, 10} : IsDigit(s[i])

\* The day a valid date text names, as year * 10000 + month * 100 + day
DateKey(s) ==
  LET i == IndexIn("-", s, 1)
      j == IndexIn("-", s, i + 1)
  IN  NumVal(SubSeq(s, 1, i - 1)) * 10000 + NumVal(SubSeq(s, i + 1, j - 1)) * 100
        + NumVal(SubSeq(s, j + 1, Len(s)))

\* s names a day no later than t does
CalendarLeq(s, t) == DateKey(s) <= DateKey(t)

\* A draft of a debit and a credit of 0.01 between two accounts, as add_line
\* builds it while the date field holds today's date
DraftBetween(D, debit_cb, credit_cb) ==
  add_line(D, add_line(D, <<>>, Today, debit_cb, Num(14), Blank).entries,
           Today, credit_cb, Blank, Num(14)).entries

\* Dates the date field of the voucher form can hold when "Save Voucher" is
\* pressed: those of ReportVoucherDates and one that is no date
SaveDateInputs == ReportVoucherDates \cup {<<"1", "/", "2">>}

\* C11 as stated: every stored voucher date is a fixed-width, zero-padded
\* YYYY-MM-DD text, so the text order of any two stored dates is their calendar
\* order; and save_voucher with a date field that is not of that form reports
\* InvalidDate and leaves the database as it was.
C11_StoredDatesPadded ==
  /\ \A v \in vouchers : PaddedDate(v.date)
  /\ \A v, w \in vouchers : TextLeq(v.date, w.date) <=> CalendarLeq(v.date, w.date)
  /\ \A d \in SaveDateInputs, a, b \in {x.name : x \in accounts} :
       LET o == save_voucher(Db, NoVoucher, d, <<>>, DraftBetween(Db, a, b))
       IN  ~ PaddedDate(Strip(d)) => o.result = "InvalidDate" /\ o.db = Db

\* ------------------------------------------------------------------ C12
\* What the account box and the "Cash Accts" field of the report bar can hold
AccountBoxInputs == {x.name : x \in accounts} \cup {<<>>}

\* The outcomes of the five reports for one From and To, on the committed
\* database and the rows on display
ReportOutcomes(from_text, to_text) ==
  {generate_trial_balance(Db, report_tree, from_text, to_text),
   generate_pl(Db, report_tree, from_text, to_text),
   generate_bs(Db, report_tree, from_text, to_text)}
  \cup {generate_general_ledger(Db, report_tree, from_text, to_text, a) : a \in AccountBoxInputs}
  \cup {generate_cash_flow(Db, report_tree, from_text, to_text, c) : c \in CashInputs}

\* From and To are dates and From names a later day than To
StartAfterEnd(from_text, to_text) ==
  /\ is_valid_date(Strip(from_text))
  /\ is_valid_date(Strip(to_text))
  /\ ~ CalendarLeq(Strip(from_text), Strip(to_text))

Rejected(o) == o.result = "InvalidDateRange" /\ o.tree = report_tree

\* C12 as stated: each of the five reports, run with a From date later than
\* the To date, reports InvalidDateRange and leaves the rows on display as
\* they were.
C12_InvertedRangeRejected ==
  \A f \in ReportDateInputs :
    StartAfterEnd(f[1], f[2]) => \A o \in ReportOutcomes(f[1], f[2]) : Rejected(o)

\* The same for dates typed at full width: holds
C12_OnPaddedDates ==
  \A f \in ReportDateInputs :
    (StartAfterEnd(f[1], f[2]) /\ PaddedDate(Strip(f[1])) /\ PaddedDate(Strip(f[2])))
      => \A o \in ReportOutcomes(f[1], f[2]) : Rejected(o)

\* An inverted range has been rejected while rows were on display
C12_PaddedWitness == result = "InvalidDateRange" /\ report_tree /= <<>>

\* ------------------------------------------------------------------ C13
\* The From and To of ReportDateInputs that are typed at full width and do
\* not name an inverted range
PaddedRanges ==
  {f \in ReportDateInputs :
     /\ PaddedDate(Strip(f[1])) /\ PaddedDate(Strip(f[2]))
     /\ is_valid_date(Strip(f[1])) /\ is_valid_date(Strip(f[2]))
     /\ CalendarLeq(Strip(f[1]), Strip(f[2]))}

\* The lines of an account on vouchers dated from start to end, by the calendar
LinesWithin(D, account_id, start, end) ==
  {r \in JoinedLines(D) :
     r.account_id = account_id /\ CalendarLeq(start, r.date) /\ CalendarLeq(r.date, end)}

\* (date, voucher id, line id) order, dates by the calendar
CalendarOrder(r, q) ==
  \/ DateKey(r.date) < DateKey(q.date)
  \/ DateKey(r.date) = DateKey(q.date) /\ r.voucher_id < q.voucher_id
  \/ DateKey(r.date) = DateKey(q.date) /\ r.voucher_id = q.voucher_id /\ r.id <= q.id

RECURSIVE SortCalendar(_)
SortCalendar(rows) ==
  IF rows = {} THEN <<>>
  ELSE LET r == CHOOSE x \in rows : \A y \in rows : CalendarOrder(x, y)
       IN  <<r>> \o SortCalendar(rows \ {r})

\* debit - credit on an Asset or Expense account, credit - debit otherwise
SignedDelta(type, line) ==
  IF type \in {"Asset", "Expense"} THEN line.debit - line.credit ELSE line.credit - line.debit

RECURSIVE DeltaSum(_, _, _)
\* The sum of the signed deltas of the first n lines
DeltaSum(type, lines, n) ==
  IF n = 0 THEN 0 ELSE DeltaSum(type, lines, n - 1) + SignedDelta(type, lines[n])

\* The rows a ledger of the lines, in their order, has after the given
\* opening balance
LedgerAsClaimed(tree, type, lines, opening) ==
  /\ Len(tree) = Len(lines)
  /\ \A i \in 1..Len(lines) :
       /\ tree[i][1] = lines[i].date
       /\ tree[i][3] = lines[i].debit
       /\ tree[i][4] = lines[i].credit
       /\ tree[i][5] = (IF i = 1 THEN opening ELSE tree[i - 1][5]) + SignedDelta(type, lines[i])
  /\ Len(lines) > 0 => tree[Len(lines)][5] - opening = DeltaSum(type, lines, Len(lines))

\* C13 as stated: the general ledger has one row per line of the account
\* dated within [From, To], in (date, voucher id, line id) order; each running
\* balance is the one before plus the signed delta of its line, starting from
\* the opening balance, so the last balance less the opening balance is the
\* sum of the deltas in range.
C13_LedgerRows ==
  \A f \in PaddedRanges, a \in accounts :
    LET o == generate_general_ledger(Db, report_tree, f[1], f[2], a.name)
    IN  /\ o.result = "GeneralLedger"
        /\ LedgerAsClaimed(o.tree, a.type,
                           SortCalendar(LinesWithin(Db, a.id, Strip(f[1]), Strip(f[2]))),
                           OpeningBalance(Db, a.id, a.type, Strip(f[1])))

\* The same on books whose dates are all typed at full width: holds
C13_OnPaddedDates == (\A v \in vouchers : PaddedDate(v.date)) => C13_LedgerRows

\* A ledger of two rows is on display, the later voucher first entered
C13_PaddedWitness ==
  /\ result = "GeneralLedger"
  /\ Len(report_tree) = 2
  /\ \A v \in vouchers : PaddedDate(v.date)
  /\ \E v, w \in vouchers : v.id < w.id /\ DateKey(w.date) < DateKey(v.date)

\* ------------------------------------------------------------------ C14
\* The natural balance of an account of the given type over a set of lines
NaturalBalance(type, lines) ==
  IF type \in {"Asset", "Expense"} THEN SqlSum(lines, "debit") - SqlSum(lines, "credit")
  ELSE SqlSum(lines, "credit") - SqlSum(lines, "debit")

\* The lines of an account on vouchers dated before start, by the calendar
LinesBefore(D, account_id, start) ==
  {r \in JoinedLines(D) : r.account_id = account_id /\ ~ CalendarLeq(start, r.date)}

\* The lines of an account on vouchers dated on or before end, by the calendar
LinesUpTo(D, account_id, end) ==
  {r \in JoinedLines(D) : r.account_id = account_id /\ CalendarLeq(r.date, end)}

\* C14 as stated: the opening balance of the general ledger is the natural
\* balance of exactly the account's lines dated before From; every line dated
\* from From to To is a row; so the last running balance is the account's
\* natural balance over all its lines dated on or before To.
C14_OpeningAndRows ==
  \A f \in PaddedRanges, a \in accounts :
    LET o     == generate_general_ledger(Db, report_tree, f[1], f[2], a.name)
        start == Strip(f[1])
        end   == Strip(f[2])
    IN  /\ OpeningBalance(Db, a.id, a.type, start)
             = NaturalBalance(a.type, LinesBefore(Db, a.id, start))
        /\ Len(o.tree) = Cardinality(LinesWithin(Db, a.id, start, end))
        /\ o.tree /= <<>> =>
             o.tree[Len(o.tree)][5] = NaturalBalance(a.type, LinesUpTo(Db, a.id, end))

\* The same on books whose dates are all typed at full width: holds
C14_OnPaddedDates == (\A v \in vouchers : PaddedDate(v.date)) => C14_OpeningAndRows

\* A ledger of one row is on display whose balance is not the delta of its
\* line: the opening balance is not zero
C14_PaddedWitness ==
  /\ result = "GeneralLedger"
  /\ Len(report_tree) = 1
  /\ \A v \in vouchers : PaddedDate(v.date)
  /\ report_tree[1][5] /= report_tree[1][3] - report_tree[1][4]
  /\ report_tree[1][5] /= report_tree[1][4] - report_tree[1][3]

\* ------------------------------------------------------------------ C15
\* The lines of an account on vouchers dated from start to end, by the
\* calendar, whatever the account
ActivityWithin(D, start, end) ==
  {r \in JoinedLines(D) : CalendarLeq(start, r.date) /\ CalendarLeq(r.date, end)}

\* C15 as stated: the trial balance has exactly one row for each account with
\* a line on a voucher dated within [From, To] and no other row; the row holds
\* the account's sums of debits and of credits over those lines; the rows are
\* in name order.
C15_TrialBalanceRows ==
  \A f \in PaddedRanges :
    LET o      == generate_trial_balance(Db, report_tree, f[1], f[2])
        active == ActivityWithin(Db, Strip(f[1]), Strip(f[2]))
    IN  /\ o.result = "TrialBalance"
        /\ {o.tree[i][1] : i \in 1..Len(o.tree)} = {r.name : r \in active}
        /\ \A i \in 1..Len(o.tree) :
             /\ o.tree[i][2] = SqlSum({r \in active : r.name = o.tree[i][1]}, "debit")
             /\ o.tree[i][3] = SqlSum({r \in active : r.name = o.tree[i][1]}, "credit")
        /\ \A i \in 1..(Len(o.tree) - 1) : TextLess(o.tree[i][1], o.tree[i + 1][1])

\* The same on books whose dates are all typed at full width: holds
C15_OnPaddedDates == (\A v \in vouchers : PaddedDate(v.date)) => C15_TrialBalanceRows

\* A trial balance of two rows is on display, the account of the first row
\* added after that of the second, while another voucher is out of the range
C15_PaddedWitness ==
  /\ result = "TrialBalance"
  /\ Len(report_tree) = 2
  /\ \A v \in vouchers : PaddedDate(v.date)
  /\ \E a, b \in accounts :
       a.name = report_tree[1][1] /\ b.name = report_tree[2][1] /\ b.id < a.id
  /\ Cardinality(vouchers) = 2
  /\ report_tree[1][2] + report_tree[1][3] = 10

\* ------------------------------------------------------------------ C16
\* What a report button or "Refresh Dashboard" leaves in result
ReportResults ==
  {"TrialBalance", "ProfitAndLoss", "BalanceSheet", "GeneralLedger", "CashFlow",
   "InvalidDateRange", "SelectAnAccount", "AccountNotFound", "NoCashAccounts", "Dashboard"}

\* C16: a trial balance run again for the same From and To, nothing written
\* in between, shows the same rows; and a step of any report or of the
\* dashboard leaves accounts, vouchers, lines and id counters as they are.
C16_ReportsReadOnly ==
  [][/\ (result = "TrialBalance" /\ result' = "TrialBalance") => report_tree' = report_tree
     /\ result' \in ReportResults => UNCHANGED dbvars]_vars

\* A trial balance with rows is on display: "Trial Balance" can be pressed again
C16_Witness == result = "TrialBalance" /\ report_tree /= <<>> /\ transactions /= {}

\* ------------------------------------------------------------------ C17
\* Income less expenses over the lines dated from start to end, by the calendar
NetWithin(D, start, end) ==
  LET active == ActivityWithin(D, start, end)
  IN  CreditLessDebit({r \in active : r.type = "Income"})
        - DebitLessCredit({r \in active : r.type = "Expense"})

\* The last row of a report is the net row of the given net, and no row
\* before it is a net row
EndsWithNetOf(tree, net) ==
  /\ tree /= <<>>
  /\ tree[Len(tree)] = (IF net >= 0 THEN <<NetProfitLabel, fmt(0), fmt(net)>>
                        ELSE <<NetLossLabel, fmt(0 - net), fmt(0)>>)
  /\ \A i \in 1..(Len(tree) - 1) : tree[i][1] \notin {NetProfitLabel, NetLossLabel}

\* C17 as stated: the profit and loss report ends with exactly one net row;
\* with net the income (credit - debit) less the expenses (debit - credit)
\* over the lines dated within [From, To], it is "Net Profit" with net in the
\* credit column when net >= 0 and "Net Loss" with -net in the debit column
\* when net < 0, also when no income or expense line is in range.
C17_NetRow ==
  \A f \in PaddedRanges :
    LET o == generate_pl(Db, report_tree, f[1], f[2])
    IN  /\ o.result = "ProfitAndLoss"
        /\ EndsWithNetOf(o.tree, NetWithin(Db, Strip(f[1]), Strip(f[2])))

\* The same on books whose dates are all typed at full width: holds
C17_OnPaddedDates == (\A v \in vouchers : PaddedDate(v.date)) => C17_NetRow

\* A profit and loss report ending in "Net Loss" is on display
C17_PaddedWitness ==
  /\ result = "ProfitAndLoss"
  /\ \A v \in vouchers : PaddedDate(v.date)
  /\ Len(report_tree) = 2
  /\ report_tree[2] = <<NetLossLabel, fmt(14), fmt(0)>>

\* A profit and loss report of a net row only is on display while the books
\* hold a voucher out of the range
C17_PaddedEmptyWitness ==
  /\ result = "ProfitAndLoss"
  /\ \A v \in vouchers : PaddedDate(v.date)
  /\ vouchers /= {}
  /\ report_tree = <<<<NetProfitLabel, fmt(0), fmt(0)>>>>

\* ------------------------------------------------------------------ C18
\* A balance sheet row of an account holds its natural balance over all its
\* lines dated on or before end, by the calendar
RowIsCumulative(D, row, end) ==
  \E a \in D.accounts :
    /\ a.name = row[1]
    /\ a.type \in {"Asset", "Liability"}
    /\ row = (IF a.type = "Asset"
              THEN <<a.name, fmt(NaturalBalance(a.type, LinesUpTo(D, a.id, end))), fmt(0)>>
              ELSE <<a.name, fmt(0), fmt(NaturalBalance(a.type, LinesUpTo(D, a.id, end)))>>)

\* C18 as stated: for any two valid From dates on or before the same To the
\* balance sheet has the same rows, and each row holds debit - credit of an
\* Asset account, credit - debit of a Liability account, over all the
\* account's lines dated on or before To, lines dated before From included.
C18_Cumulative ==
  \A f, g \in PaddedRanges :
    LET o == generate_bs(Db, report_tree, f[1], f[2])
        q == generate_bs(Db, report_tree, g[1], g[2])
    IN  /\ o.result = "BalanceSheet"
        /\ Strip(f[2]) = Strip(g[2]) => o.tree = q.tree
        /\ \A i \in 1..Len(o.tree) : RowIsCumulative(Db, o.tree[i], Strip(f[2]))

\* The same on books whose dates are all typed at full width: holds
C18_OnPaddedDates == (\A v \in vouchers : PaddedDate(v.date)) => C18_Cumulative

\* A balance sheet with an Asset row and a Liability row is on display, and
\* every voucher is dated before the later of the From dates
C18_PaddedWitness ==
  /\ result = "BalanceSheet"
  /\ Len(report_tree) = 2
  /\ report_tree[1][2] /= fmt(0) /\ report_tree[2][3] /= fmt(0)
  /\ vouchers /= {}
  /\ \A v \in vouchers : PaddedDate(v.date) /\ ~ CalendarLeq(Jan15, v.date)
  /\ \E f, g \in PaddedRanges : f[1] /= g[1] /\ f[2] = g[2]

\* ------------------------------------------------------------------ C19
\* The names supplied in "Cash Accts": the pieces between commas, without
\* the blanks around them, the empty ones dropped
NamesSupplied(cash_text) ==
  {Strip(SubSeq(cash_text, i, j)) :
     <<i, j>> \in {p \in (1..(Len(cash_text) + 1)) \X (0..Len(cash_text)) :
                     /\ p[1] <= p[2] + 1
                     /\ \A k \in p[1]..p[2] : cash_text[k] /= ","
                     /\ p[1] = 1 \/ cash_text[p[1] - 1] = ","
                     /\ p[2] = Len(cash_text) \/ cash_text[p[2] + 1] = ","}} \ {<<>>}

\* name contains word, ignoring case; word is in lower case
ContainsIgnoringCase(name, word) ==
  \E i \in 0..(Len(name) - Len(word)) :
    \A k \in 1..Len(word) : FoldChar(name[i + k]) = word[k]

\* The names of the accounts that hold "cash" or "bank" in any case
CashOrBankNames ==
  {a.name : a \in {x \in accounts :
                      \/ ContainsIgnoringCase(x.name, <<"c", "a", "s", "h">>)
                      \/ ContainsIgnoringCase(x.name, <<"b", "a", "n", "k">>)}}

\* C19: for a valid From..To, the cash flow report fails with NoCashAccounts
\* and leaves the rows on display as they are whenever the resolved set of
\* cash account names (those supplied, else those of the accounts whose name
\* contains "cash" or "bank" in any case) is empty; when no name is supplied
\* and such accounts exist, the report is made over exactly those accounts.
C19_NoCashAccounts ==
  \A f \in ReportDateInputs, c \in CashInputs :
    LET o        == generate_cash_flow(Db, report_tree, f[1], f[2], c)
        resolved == IF NamesSupplied(c) /= {} THEN NamesSupplied(c) ELSE CashOrBankNames
    IN  get_report_dates(f[1], f[2]).result = "ok" =>
          /\ resolved = {} => o.result = "NoCashAccounts" /\ o.tree = report_tree
          /\ NamesSupplied(c) = {} /\ CashOrBankNames /= {} =>
                /\ o.result = "CashFlow"
                /\ cash_names(Db, c) = CashOrBankNames
                /\ {o.tree[i][1] : i \in 1..(Len(o.tree) - 1)}
                     = {r.name : r \in {x \in JoinedLines(Db) :
                                          /\ x.name \in CashOrBankNames
                                          /\ DateBetween(x.date, Strip(f[1]), Strip(f[2]))}}

\* "No cash accounts found" came up over the rows of an earlier cash flow
\* report, while the chart has accounts and none holds "cash" or "bank"
C19_Witness ==
  /\ result = "NoCashAccounts"
  /\ report_tree /= <<>>
  /\ accounts /= {}
  /\ CashOrBankNames = {}

\* ------------------------------------------------------------------ C20
RECURSIVE SignedTotal(_, _)
\* The sum of the signed deltas of a set of lines on accounts of one type;
\* 0 for no line
SignedTotal(type, lines) ==
  IF lines = {} THEN 0
  ELSE LET t == CHOOSE x \in lines : TRUE
       IN  SignedDelta(type, t) + SignedTotal(type, lines \ {t})

\* The committed lines on accounts of the given type, of any date
CommittedLinesOn(type) ==
  {t \in transactions : \A a \in accounts : a.id = t.account_id => a.type = type}

\* C20: after a successful save and after a successful delete of a voucher
\* the dashboard shows the figures of the committed books over all dates:
\* Total Assets the sum of debit - credit over the lines on Asset accounts,
\* Total Liabilities the sum of credit - debit over the lines on Liability
\* accounts, Net Profit the sum of credit - debit over Income lines less the
\* sum of debit - credit over Expense lines, an empty sum counting as 0.
C20_DashboardRecomputed ==
  result \in {"VoucherSaved", "VoucherDeleted"} =>
    /\ cards.assets = SignedTotal("Asset", CommittedLinesOn("Asset"))
    /\ cards.liabilities = SignedTotal("Liability", CommittedLinesOn("Liability"))
    /\ cards.net_profit = SignedTotal("Income", CommittedLinesOn("Income"))
                            - SignedTotal("Expense", CommittedLinesOn("Expense"))

\* A voucher was just deleted, another is left, and the dashboard shows the
\* assets of the one that is left
C20_Witness ==
  /\ result = "VoucherDeleted"
  /\ vouchers /= {}
  /\ seq.vouchers > Cardinality(vouchers)
  /\ cards.assets /= 0

\* A voucher was just saved and the dashboard shows a profit
C20_SaveWitness ==
  /\ result = "VoucherSaved"
  /\ cards.net_profit > 0

\* ------------------------------------------------------------------ C21
\* The draft passes the emptiness, balance and date checks of save_voucher:
\* the call goes on to the atomic unit
ReachesAtomicWrite ==
  /\ entries /= <<>>
  /\ DraftBalanced
  /\ is_valid_date(Strip(date_entry))

\* C21: a save_voucher that reaches the atomic unit writes exactly one
\* backup file, tagged "pre_save", that is a copy of the database as it was
\* committed before the call, so taken before the first write; a call that
\* the emptiness, balance or date check rejects writes no backup file.  After
\* a successful save the file written is not a copy of the database the save
\* has committed.
C21_BackupBeforeWrite ==
  /\ ReachesAtomicWrite => SaveOutcome.backups = <<[tag |-> "pre_save", db |-> Db]>>
  /\ ~ ReachesAtomicWrite =>
        /\ SaveOutcome.result \in {"NoLines", "Unbalanced", "InvalidDate"}
        /\ SaveOutcome.backups = <<>>
  /\ result \in {"NoLines", "Unbalanced", "InvalidDate"} => backups_written = <<>>
  /\ result = "VoucherSaved" =>
        /\ Len(backups_written) = 1
        /\ backups_written[1].tag = "pre_save"
        /\ backups_written[1].db /= Db

\* A voucher was saved over books that already held one, and the backup
\* file holds the books without what the save wrote
C21_Witness ==
  /\ result = "VoucherSaved"
  /\ backups_written /= <<>>
  /\ backups_written[1].db.vouchers /= {}
  /\ backups_written[1].db.seq.transactions < seq.transactions

\* The atomic unit failed after the backup was written
C21_FailedWriteWitness ==
  /\ result = "sql:ForeignKey"
  /\ backups_written = <<[tag |-> "pre_save", db |-> Db]>>

\* ------------------------------------------------------------------ C22
\* save_voucher would succeed on the voucher the editor holds
EditSaves == current_voucher_id /= NoVoucher /\ SaveOutcome.result = "VoucherSaved"

\* C22: a successful save_voucher of a voucher loaded for edit keeps its id,
\* replaces its date and description by those of the form, removes every line
\* it had and leaves it Posted with exactly the lines of the draft, in order;
\* every other voucher, with its status and its lines, is as it was, no
\* voucher is added, and the accounts are as they were.
C22_EditReplaces ==
  EditSaves =>
    LET after == SaveOutcome.db
        cur   == current_voucher_id
    IN  /\ {v \in after.vouchers : v.id = cur}
             = {[id |-> cur, date |-> Strip(date_entry),
                 description |-> Strip(desc_entry), posted |-> 1]}
        /\ {t.id : t \in LinesOf(after, cur)} \cap {t.id : t \in transactions} = {}
        /\ PersistedLines(after, cur)
             = [i \in 1..Len(entries) |->
                  <<entries[i].acc_id, entries[i].debit, entries[i].credit>>]
        /\ {v \in after.vouchers : v.id /= cur} = {v \in vouchers : v.id /= cur}
        /\ {t \in after.transactions : t.voucher_id /= cur}
             = {t \in transactions : t.voucher_id /= cur}
        /\ after.seq.vouchers = seq.vouchers
        /\ after.accounts = accounts

\* A voucher was loaded, given another date and description and saved, while
\* the other voucher kept its own
C22_Witness ==
  /\ result = "VoucherSaved"
  /\ seq.vouchers = 2
  /\ seq.transactions = 6
  /\ \E v, w \in vouchers :
       /\ v.description = <<"n">> /\ v.posted = 1 /\ v.date /= Jan01
       /\ w.description = <<>> /\ w.posted = 1 /\ w.date = Jan01
       /\ \A t \in LinesOf(Db, v.id) : t.id > 4
       /\ Cardinality(LinesOf(Db, w.id)) = 2

\* ------------------------------------------------------------------ C23
\* C23: in every committed state every transaction line references a
\* voucher that exists and an account that exists, whatever accounts were
\* added, updated and deleted and whatever vouchers were saved, edited and
\* deleted before.
C23_NoOrphanLine ==
  \A t \in transactions :
    /\ \E v \in vouchers : v.id = t.voucher_id
    /\ \E a \in accounts : a.id = t.account_id

\* After one voucher was deleted, the delete of the account that the lines of
\* the other voucher reference was refused
C23_Witness ==
  /\ result = "AccountInUse"
  /\ seq.vouchers = 2
  /\ Cardinality(vouchers) = 1
  /\ Cardinality(transactions) = 2

\* ------------------------------------------------------------------ C24
\* C24: from an empty database on, whatever the handlers did, every
\* persisted voucher is Posted and has at least two lines: no Draft voucher
\* and no voucher of no line or one line is ever committed.
C24_AllPostedTwoLines ==
  \A v \in vouchers : v.posted = 1 /\ Cardinality(LinesOf(Db, v.id)) >= 2

\* The save of a draft of one line was refused as unbalanced while the books
\* hold a voucher
C24_Witness ==
  /\ result = "Unbalanced"
  /\ Len(entries) = 1
  /\ vouchers /= {}

\* ------------------------------------------------------------------ C25
\* C25: in every committed state, also after update_account has renamed an
\* account or given it another type, the dashboard figures computed from that
\* state satisfy Total Assets - Total Liabilities = Net Profit.
C25_AccountingEquation ==
  LET now == refresh_dashboard(Db)
  IN  now.assets - now.liabilities = now.net_profit

\* An account that lines reference was given another type: the figures
\* computed from the books are no longer those on the cards
C25_Witness ==
  /\ result = "AccountUpdated"
  /\ transactions /= {}
  /\ refresh_dashboard(Db) /= cards
  /\ refresh_dashboard(Db).net_profit /= 0

\* ------------------------------------------------------------------ C26
RECURSIVE ColumnTotal(_, _)
\* The sum of a column over the rows of a report
ColumnTotal(tree, col) ==
  IF tree = <<>> THEN 0 ELSE Head(tree)[col] + ColumnTotal(Tail(tree), col)

\* C26: for every From and To that get_report_dates accepts, in every
\* committed state, the debit column of the trial balance adds up to the same
\* as its credit column.
C26_TrialBalanceBalances ==
  \A f \in ReportDateInputs :
    LET o == generate_trial_balance(Db, report_tree, f[1], f[2])
    IN  o.result = "TrialBalance" => ColumnTotal(o.tree, 2) = ColumnTotal(o.tree, 3)

\* A trial balance is on display that counts one voucher of the two in the
\* books, the other being dated 5 January without its zeros
C26_Witness ==
  /\ result = "TrialBalance"
  /\ Cardinality(vouchers) = 2
  /\ \E v \in vouchers : ~ PaddedDate(v.date)
  /\ ColumnTotal(report_tree, 2) = 10
  /\ ColumnTotal(report_tree, 3) = 10

\* ------------------------------------------------------------------ C27
\* The editor holds the id of a voucher that no longer exists
StaleEditor ==
  /\ current_voucher_id /= NoVoucher
  /\ ~ \E v \in vouchers : v.id = current_voucher_id

\* What "Save Voucher" would do with the draft if the editor held no id
SaveAsNewOutcome == save_voucher(Db, NoVoucher, date_entry, desc_entry, entries)

\* C27: voucher ids are never reused: every id in the table, in the editor
\* and in the history is one that was handed out, a new voucher gets the next
\* id after the last one handed out, and a delete does not lower that mark;
\* and a save from an editor that holds the id of a deleted voucher does not
\* succeed and leaves the database as it was.
C27_StaleSaveFails ==
  /\ \A v \in vouchers : v.id <= seq.vouchers
  /\ current_voucher_id <= seq.vouchers
  /\ \A sel \in vouchers_tree : sel <= seq.vouchers
  /\ SaveAsNewOutcome.result = "VoucherSaved" =>
        /\ {v.id : v \in SaveAsNewOutcome.db.vouchers} \ {v.id : v \in vouchers}
             = {seq.vouchers + 1}
        /\ SaveAsNewOutcome.db.seq.vouchers = seq.vouchers + 1
  /\ \A v \in 1..MaxVoucherId : delete_selected_voucher(Db, v, TRUE).db.seq = seq
  /\ StaleEditor => SaveOutcome.result /= "VoucherSaved" /\ SaveOutcome.db = Db

\* The save of a voucher that was deleted while the editor held it was
\* refused, and the books hold another voucher with its lines
C27_Witness ==
  /\ result = "sql:ForeignKey"
  /\ StaleEditor
  /\ entries /= <<>>
  /\ vouchers /= {}
  /\ transactions /= {}

\* ------------------------------------------------------------------ C28
\* The draft with one more line on the given account that makes up the
\* difference of its totals: a credit when the debits are ahead, a debit
\* otherwise
Balanced_by(es, o, account_cb) ==
  LET dt   == ColumnSum(es, "debit")
      ct   == ColumnSum(es, "credit")
      line == o.entries[Len(es) + 1]
  IN  /\ Len(o.entries) = Len(es) + 1
      /\ SubSeq(o.entries, 1, Len(es)) = es
      /\ \E a \in accounts : a.name = account_cb /\ a.id = line.acc_id
      /\ OneSided(line.debit, line.credit)
      /\ dt > ct => line.credit = dt - ct
      /\ dt < ct => line.debit = ct - dt
      /\ ColumnSum(o.entries, "debit") = ColumnSum(o.entries, "credit")

\* C28: add_balancing_line on a draft that is not empty and not balanced,
\* with the account box on an existing account, appends exactly one line, a
\* credit of the debit total less the credit total when the debits are ahead
\* and a debit of the difference otherwise, after which the totals of the
\* draft agree; on an empty draft, on a balanced draft and with no existing
\* account in the box it leaves the draft as it is.
C28_BalancingLine ==
  \A account_cb \in NamesOf(VoucherFormAccounts) :
    LET o == add_balancing_line(Db, entries, account_cb)
    IN  IF /\ entries /= <<>>
           /\ ~ DraftBalanced
           /\ \E a \in accounts : a.name = account_cb
        THEN Balanced_by(entries, o, account_cb)
        ELSE o.entries = entries

\* A balancing credit was added to a draft of one debit
C28_Witness ==
  /\ result = "BalancingLineAdded"
  /\ Len(entries) = 2
  /\ entries[1].debit > 0
  /\ entries[2].credit = entries[1].debit

\* ------------------------------------------------------------------ C29
\* What save_voucher does to a voucher that was just loaded for edit and is
\* saved as it was loaded
ResavedUnchanged(v) ==
  LET l == load_voucher_for_edit(Db, v.id, Editor).editor
      o == save_voucher(Db, l.current_voucher_id, l.date_entry, l.desc_entry, l.entries)
  IN  /\ o.result = "VoucherSaved"
      /\ {w \in o.db.vouchers : w.id = v.id} = {v}
      /\ PersistedLines(o.db, v.id) = PersistedLines(Db, v.id)

\* C29: a step of "Save Voucher" that succeeds leaves the editor without a
\* voucher id and with an empty draft, so that the next save creates a
\* voucher, and a step that is rejected or fails leaves the id and the draft
\* as they were; and a voucher loaded for edit and saved without a change
\* keeps its id, date, description and sequence of lines (account, debit,
\* credit).
C29_EditorAfterSave ==
  /\ [](result = "VoucherSaved" => current_voucher_id = NoVoucher /\ entries = <<>>)
  /\ [](\A v \in vouchers : ResavedUnchanged(v))
  /\ [][SaveVoucher(HistFromDefault, Today) =>
          IF result' = "VoucherSaved"
          THEN current_voucher_id' = NoVoucher /\ entries' = <<>>
          ELSE UNCHANGED <<current_voucher_id, entries>>]_vars

\* The only voucher was loaded and saved again: it has its date and its
\* description, lines with new ids, and the editor is empty
C29_Witness ==
  /\ result = "VoucherSaved"
  /\ current_voucher_id = NoVoucher
  /\ entries = <<>>
  /\ seq.vouchers = 1
  /\ seq.transactions = 4
  /\ vouchers = {[id |-> 1, date |-> Jan01, description |-> <<>>, posted |-> 1]}
  /\ Cardinality(transactions) = 2

\* A save was refused as unbalanced and the editor still holds the voucher
\* and the one line left in the draft
C29_RejectedWitness ==
  /\ result = "Unbalanced"
  /\ current_voucher_id /= NoVoucher
  /\ Len(entries) = 1

\* ------------------------------------------------------------------ C30
\* The timers of the report table that wait
PendingRows == {t \in after_jobs.timers : t.key = "report_tree"}

\* A step of the "Trial Balance" button that shows a report
ReportGenerated ==
  \E f \in AnimDateInputs : ShowTrialBalance(f[1], f[2]) /\ result' = "TrialBalance"

\* C30: the rows of a report are inserted by timers.  A report generated
\* while rows of the one before are still to come cancels their timer: at
\* most one timer of the table waits, it belongs to the report generated
\* last, and the table holds that report's rows up to the timer's position,
\* in order; with no timer waiting the table holds exactly the rows of the
\* report generated last.  Unless reports are generated again and again,
\* the table ends up with exactly those rows.
C30_LatestReportShown ==
  /\ [](Cardinality(PendingRows) <= 1)
  /\ [](\A t \in PendingRows :
          /\ t.rows = animated_rows
          /\ t.idx < Len(animated_rows)
          /\ tree_anim_jobs["report_tree"] = t.id
          /\ report_tree = SubSeq(animated_rows, 1, t.idx))
  /\ [](PendingRows = {} => report_tree = animated_rows)
  /\ [][ReportGenerated =>
          /\ report_tree' = <<>>
          /\ PendingRows' \cap PendingRows = {}
          /\ animated_rows' /= <<>> => Cardinality(PendingRows') = 1]_vars
  /\ \/ []<><<ReportGenerated>>_vars
     \/ <>[](PendingRows = {} /\ report_tree = animated_rows)

\* One voucher is in the books and its trial balance has two rows.  Three
\* timers were started and the table is complete: the report was generated
\* twice, and the timer of the first was cancelled before it ran.
C30_Witness ==
  /\ seq.vouchers = 1
  /\ after_jobs = [last |-> 3, timers |-> {}]
  /\ Len(animated_rows) = 2
  /\ report_tree = animated_rows
  /\ tree_anim_jobs["report_tree"] = NoJob

\* A report of two rows was generated after two timers of earlier reports,
\* neither of which was the last of its report: the timer waiting is the
\* new report's only, and the table is empty again
C30_CancelledWitness ==
  /\ seq.vouchers = 1
  /\ after_jobs.last = 3
  /\ \E t \in PendingRows : t.id = 3 /\ t.idx = 0
  /\ Len(animated_rows) = 2
  /\ report_tree = <<>>

\* The range was changed to one without vouchers while rows were to come:
\* the timer is cancelled and the table stays empty
C30_EmptyReportWitness ==
  /\ after_jobs = [last |-> 2, timers |-> {}]
  /\ tree_anim_jobs["report_tree"] = 2
  /\ animated_rows = <<>>
  /\ report_tree = <<>>

====
